---- MODULE Spec2Model ----
(***************************************************************************)
(* A model of the retrieval-augmented answering pipeline of src/rag.py:    *)
(* the VectorStoreManager (ingestion, index construction, retrieval), the  *)
(* RAGSystem life cycle (initialize_system, reset_system, is_initialized)  *)
(* and the compiled LangGraph workflow that process_query invokes          *)
(* (retrieve -> grade -> [rewrite -> web_search] -> generate -> END).      *)
(***************************************************************************)
EXTENDS Integers, Sequences, FiniteSets, TLC

(***************************************************************************)
(* Bounds of the model.                                                    *)
(***************************************************************************)
\* pages of the PDF document of the model's document sets
NumPages == 11
\* hits the similarity search returns in the model (at most SimilarityK)
MaxSimHits == 2
\* items the search provider returns in the model (at most NumResults)
MaxWebHits == 1
\* the longest document list given to generate_answer when called on its own
MaxRenderDocs == 3
\* the longest list of web results given to generate_answer called on its own
MaxRenderWeb == 2
\* bot threads alive at the same time in the model of the page
MaxBotThreads == 2
\* the most files in a document set whose ingestion is called on its own
MaxLoadFiles == 4

(***************************************************************************)
(* Program constants.                                                      *)
(***************************************************************************)
MmrK == 20
SimilarityK == 10
NumResults == 3
IntroPages == 5
MinGraded == 5
MinDocuments == 3

(***************************************************************************)
(* Text. Python strings are TLA+ strings; lower(), split(), endswith(),    *)
(* strip() and the substring test `a in b` are computed on them.           *)
(***************************************************************************)
UpperCase == "ABCDEFGHIJKLMNOPQRSTUVWXYZ"
LowerCase == "abcdefghijklmnopqrstuvwxyz"

Min(a, b) == IF a < b THEN a ELSE b

CharAt(s, i) == SubSeq(s, i, i)

\* str.lower() of one character
LowerChar(c) ==
    IF \E i \in 1..Len(UpperCase) : CharAt(UpperCase, i) = c
    THEN CharAt(LowerCase, CHOOSE i \in 1..Len(UpperCase) : CharAt(UpperCase, i) = c)
    ELSE c

RECURSIVE LowerFrom(_, _)
LowerFrom(s, i) ==
    IF i > Len(s) THEN "" ELSE LowerChar(CharAt(s, i)) \o LowerFrom(s, i + 1)

\* str.lower()
Lower(s) == LowerFrom(s, 1)

IsSpace(c) == c \in {" ", "\n", "\t"}

\* `t in s` on strings
Contains(s, t) ==
    \/ Len(t) = 0
    \/ \E i \in 1..(Len(s) - Len(t) + 1) : SubSeq(s, i, i + Len(t) - 1) = t

\* str.endswith
EndsWith(s, t) ==
    /\ Len(t) <= Len(s)
    /\ SubSeq(s, Len(s) - Len(t) + 1, Len(s)) = t

RECURSIVE FirstNonSpace(_, _)
FirstNonSpace(s, i) ==
    IF i > Len(s) \/ ~IsSpace(CharAt(s, i)) THEN i ELSE FirstNonSpace(s, i + 1)

RECURSIVE LastNonSpace(_, _)
LastNonSpace(s, i) ==
    IF i < 1 \/ ~IsSpace(CharAt(s, i)) THEN i ELSE LastNonSpace(s, i - 1)

\* str.strip()
Strip(s) ==
    IF FirstNonSpace(s, 1) > Len(s) THEN ""
    ELSE SubSeq(s, FirstNonSpace(s, 1), LastNonSpace(s, Len(s)))

\* sep.join(strings)
RECURSIVE JoinFrom(_, _, _)
JoinFrom(strings, sep, i) ==
    IF i > Len(strings) THEN ""
    ELSE IF i = Len(strings) THEN strings[i]
    ELSE strings[i] \o sep \o JoinFrom(strings, sep, i + 1)

Join(strings, sep) == JoinFrom(strings, sep, 1)

\* bool(s.strip()): some character of s is not white space
StripNonEmpty(s) == \E i \in 1..Len(s) : ~IsSpace(CharAt(s, i))

\* set(s.split()): the maximal runs of non-space characters of s, scanned
\* from position i with the current run starting at start (0: no run)
RECURSIVE SplitFromAt(_, _, _)
SplitFromAt(s, i, start) ==
    IF i > Len(s)
    THEN (IF start > 0 THEN {SubSeq(s, start, Len(s))} ELSE {})
    ELSE IF IsSpace(CharAt(s, i))
         THEN (IF start > 0 THEN {SubSeq(s, start, i - 1)} ELSE {})
              \cup SplitFromAt(s, i + 1, 0)
         ELSE SplitFromAt(s, i + 1, IF start > 0 THEN start ELSE i)

Split(s) == SplitFromAt(s, 1, 0)

(***************************************************************************)
(* The uploaded files of the model: a name and the bytes, the bytes given  *)
(* by what the parsers make of them (a PDF that opens and its pages' text, *)
(* or bytes that decode as UTF-8 to a text).                               *)
(***************************************************************************)
PageText(p) ==
    CASE p = 1 -> "Title Page"
      [] p = 2 -> "Contents"
      [] p = 3 -> "Preface by the author"
      [] p = 4 -> " \n "
      [] p = 5 -> "Chapter one"
      [] p > 5 /\ p % 2 = 0 -> "Rivers and the sea"
      [] OTHER -> "Machine learning is the topic"

\* the pages of a PDF with more pages than one diversity search returns: two
\* pages of the same text among the first, two of the same text after them,
\* and a last page repeating the text of page 2
LongPageText(p) ==
    CASE p \in {6, 8} -> "Rivers and the sea"
      [] p \in {MmrK + 1, MmrK + 2} -> "Appendix"
      [] p = MmrK + 3 -> "Section 2"
      [] OTHER -> "Section " \o ToString(p)

FileBytes(name) ==
    CASE name = "long.pdf" ->
            [opens |-> TRUE, pages |-> [p \in 1..(MmrK + 3) |-> LongPageText(p)],
             utf8 |-> FALSE, text |-> ""]
      [] name = "book.pdf" ->
            [opens |-> TRUE, pages |-> [p \in 1..NumPages |-> PageText(p)],
             utf8 |-> FALSE, text |-> ""]
      [] name = "short.pdf" ->
            [opens |-> TRUE,
             pages |-> <<"Summary", "The plan for Spring", "Budget">>,
             utf8 |-> FALSE, text |-> ""]
      [] name = "scan.pdf" ->
            [opens |-> TRUE,
             pages |-> <<"", " ", "\n", "", "\t", "Rivers and the sea", "Old maps">>,
             utf8 |-> FALSE, text |-> ""]
      [] name = "five.pdf" ->
            [opens |-> TRUE,
             pages |-> <<"One", "Two", "Three", "Four", "Five">>,
             utf8 |-> FALSE, text |-> ""]
      [] name = "blank.pdf" ->
            [opens |-> TRUE, pages |-> <<"", " \n">>, utf8 |-> FALSE, text |-> ""]
      [] name = "empty.txt" ->
            [opens |-> FALSE, pages |-> <<>>, utf8 |-> TRUE, text |-> " "]
      [] name = "Broken.PDF" ->
            [opens |-> FALSE, pages |-> <<>>, utf8 |-> FALSE, text |-> ""]
      [] name = "notes.txt" ->
            [opens |-> FALSE, pages |-> <<>>, utf8 |-> TRUE,
             text |-> "Zebra notes: habitat and diet"]
      [] name = "bad.csv" ->
            [opens |-> FALSE, pages |-> <<>>, utf8 |-> FALSE, text |-> ""]
      [] OTHER ->
            [opens |-> FALSE, pages |-> <<>>, utf8 |-> TRUE, text |-> "raw"]

\* the document sets a RAGSystem is constructed with (dict insertion order)
DocumentSets ==
    { <<>>,
      <<"image.png">>,
      <<"bad.csv", "Broken.PDF">>,
      <<"blank.pdf">>,
      <<"empty.txt">>,
      <<"five.pdf">>,
      <<"notes.txt">>,
      <<"short.pdf">>,
      <<"scan.pdf">>,
      <<"bad.csv", "book.pdf", "notes.txt">> }

\* the queries handed to process_query
Queries ==
    { "What is the LATEST model",
      "Explain zebra habitat" }

(***************************************************************************)
(* VectorStoreManager: ingestion.                                          *)
(***************************************************************************)
\* a langchain Document: page_content and metadata (page absent: has_page
\* FALSE; source absent, in a Document made by hand: has_source FALSE)
Document(content, source, has_page, page, total_pages) ==
    [page_content |-> content, has_source |-> TRUE, source |-> source,
     has_page |-> has_page, page |-> page, total_pages |-> total_pages]

RECURSIVE PdfPagesFrom(_, _, _)
PdfPagesFrom(pages, filename, p) ==
    IF p > Len(pages) THEN <<>>
    ELSE (IF StripNonEmpty(pages[p])
          THEN <<Document(pages[p], filename, TRUE, p, Len(pages))>>
          ELSE <<>>) \o PdfPagesFrom(pages, filename, p + 1)

\* one Document per page with text; [] when the PDF does not open
process_pdf_content(content, filename) ==
    IF content.opens THEN PdfPagesFrom(content.pages, filename, 1) ELSE <<>>

\* <<Document>>, or <<>> for the None of a decode failure
process_text_content(content, filename) ==
    IF content.utf8
    THEN <<Document(content.text, filename, FALSE, 0, 0)>>
    ELSE <<>>

\* the documents one file contributes to load_documents
LoadOne(filename) ==
    LET lowered == Lower(filename)
    IN  IF EndsWith(lowered, ".pdf")
        THEN process_pdf_content(FileBytes(filename), filename)
        ELSE IF EndsWith(lowered, ".txt") \/ EndsWith(lowered, ".csv")
             THEN process_text_content(FileBytes(filename), filename)
             ELSE <<>>

RECURSIVE LoadFrom(_, _)
LoadFrom(files, i) ==
    IF i > Len(files) THEN <<>> ELSE LoadOne(files[i]) \o LoadFrom(files, i + 1)

\* load_documents giving up at the first file that contributes nothing
RECURSIVE LoadFrom_aborts(_, _)
LoadFrom_aborts(files, i) ==
    IF i > Len(files) THEN <<>>
    ELSE IF LoadOne(files[i]) = <<>> THEN <<>>
         ELSE LoadOne(files[i]) \o LoadFrom_aborts(files, i + 1)

load_documents_aborts(files) == LoadFrom_aborts(files, 1)

load_documents(files) == LoadFrom(files, 1)

\* RecursiveCharacterTextSplitter(1000, 200).split_documents on texts shorter
\* than the chunk size: one chunk per document, its metadata kept; a text of
\* white space only gives no chunk
RECURSIVE SplitFrom(_, _)
SplitFrom(docs, i) ==
    IF i > Len(docs) THEN <<>>
    ELSE (IF StripNonEmpty(docs[i].page_content) THEN <<docs[i]>> ELSE <<>>)
         \o SplitFrom(docs, i + 1)

split_documents(docs) == SplitFrom(docs, 1)

(***************************************************************************)
(* State.                                                                  *)
(***************************************************************************)
VARIABLES
    documents,      \* VectorStoreManager.documents: the stored file names
    vectorstore,    \* VectorStoreManager.vectorstore: None, or the FAISS index
    workflow,       \* RAGSystem.workflow: "None" or "compiled"
    initialized,    \* RAGSystem._initialized
    default_prompt, \* RAGSystem._default_prompt
    current_prompt, \* RAGSystem._current_prompt
    init_returned,  \* what the last initialize_system call returned
    pc,             \* where the process_query call in flight stands
    state,          \* the GraphState of the run in flight
    ran,            \* the nodes the run in flight has executed, in order
    run_status,     \* "none", "running", "ended" (reached END) or "aborted"
    result,         \* how the last process_query call ended
    faults,         \* the external services that raised in the run in flight
    start_prompt,   \* _current_prompt as it was when the run in flight started
    llm_prompt,     \* the prompt generate_answer last gave to llm.predict
    ext_calls,      \* the external services called since construction
    call,           \* the last direct call of a component, with what it returned
    build,          \* a create_vectorstore call in progress on another thread
    search,         \* a search_local_documents call in progress on another thread
    other,          \* a second process_query call in progress on another thread
    session_documents, \* Home: st.session_state.documents, the file names in order
    rag_system,     \* Home: st.session_state.rag_system, None or the RAGSystem
    slack_bot,      \* Home: st.session_state.slack_bot, None or the SlackBot
    bot_running,    \* Home: st.session_state.bot_running
    bot_threads,    \* the RAGSystems of the SlackBots whose thread is alive
    delivered       \* what the last message handled by a bot thread retrieved

promptvars == <<default_prompt, current_prompt>>
sysvars == <<documents, vectorstore, workflow, initialized, init_returned, promptvars>>
runvars == <<pc, state, ran, run_status, result, faults, start_prompt, llm_prompt>>
homevars == <<session_documents, rag_system, slack_bot, bot_running, bot_threads,
              delivered>>
auxvars == <<build, search, homevars, other>>
vars == <<sysvars, runvars, ext_calls, call, auxvars>>

NoBuild == [pc |-> "idle", splits |-> <<>>, embedded |-> 0]
NoSearch == [pc |-> "idle", read |-> <<>>, mmr |-> <<>>, out |-> <<>>]
NoRun == [pc |-> "none"]
NoRag == [exists |-> FALSE, documents |-> <<>>, vectorstore |-> [built |-> FALSE, docs |-> <<>>],
          initialized |-> FALSE]
NoBot == [exists |-> FALSE, rag |-> NoRag, started |-> FALSE]
NoDelivery == [op |-> "none"]

NoneStore == [built |-> FALSE, docs |-> <<>>]

\* the persona template __init__ stores as _default_prompt, abridged
DefaultPrompt == "<persona>You are Patrick</persona>"

\* the templates update_prompt is called with
NewPrompts == { "Answer briefly.", "" }

NotInitializedMsg ==
    "The knowledge base is not initialized. Please upload documents first."
ErrorMsg ==
    "I apologize, but I encountered an error while processing your request. Please try again or contact support if the issue persists."
NoAnswerMsg == "Sorry, I couldn't generate an answer."
\* what _handle_direct_message says from its outer except clause
HandlerErrorMsg ==
    "I encountered an error processing your message. Please try again."

\* what the language model returns when it returns
LlmAnswers == { "Example City is the capital.", "" }
LlmRewrites == { "latest model release" }

\* the items the search provider can return, at most num of them
WebItem(i) == [title |-> "T", snippet |-> "S", link |-> "L", rank |-> i]
WebResults(num) ==
    { [i \in 1..n |-> WebItem(i)] : n \in 0..Min(num, MaxWebHits) }

Nodes == { "retrieve", "grade", "rewrite", "web_search", "generate" }

\* the keys of GraphState: the channels of the compiled graph
GraphStateKeys ==
    { "query", "documents", "graded_documents", "rewritten_query",
      "web_results", "answer" }

\* workflow.invoke({"query": query}): the input written to the channels
InputState(query) ==
    [query |-> query, documents |-> <<>>, graded_documents |-> <<>>,
     rewritten_query |-> "", web_results |-> <<>>, answer |-> "",
     present |-> {"query"}]

EmptyState == InputState("")

\* state.get(key, default)
StateGet(st, key, default) == IF key \in st.present THEN st[key] ELSE default

\* a node's returned dict written to the channels of StateGraph(GraphState):
\* a key that is no channel of the graph is not written
ApplyUpdate(st, upd) ==
    [k \in GraphStateKeys \cup {"present"} |->
        IF k = "present" THEN st.present \cup (DOMAIN upd \cap GraphStateKeys)
        ELSE IF k \in DOMAIN upd THEN upd[k]
        ELSE st[k]]

(***************************************************************************)
(* VectorStoreManager: index construction and retrieval.                   *)
(***************************************************************************)
\* create_vectorstore without the check for an empty corpus
create_vectorstore_unchecked(files, store, embed_ok) ==
    LET splits == split_documents(load_documents(files))
    IN  IF ~embed_ok
        THEN [ok |-> FALSE, store |-> store, called |-> {"embeddings"}]
        ELSE [ok |-> TRUE, store |-> [built |-> TRUE, docs |-> splits],
              called |-> {"embeddings"}]

\* create_vectorstore: [ok, store, called]. embed_ok: the embedding call of
\* FAISS.from_documents succeeds. Any exception gives False, the store kept.
create_vectorstore(files, store, embed_ok) ==
    LET docs == load_documents(files)
        splits == split_documents(docs)
    IN  IF Len(docs) = 0
        THEN [ok |-> FALSE, store |-> store, called |-> {}]
        ELSE IF Len(splits) = 0
        THEN [ok |-> FALSE, store |-> store, called |-> {}]
        ELSE IF ~embed_ok
        THEN [ok |-> FALSE, store |-> store, called |-> {"embeddings"}]
        ELSE [ok |-> TRUE, store |-> [built |-> TRUE, docs |-> splits],
              called |-> {"embeddings"}]

Reverse(seq) == [i \in 1..Len(seq) |-> seq[Len(seq) + 1 - i]]

\* max_marginal_relevance_search(k): min(k, n) entries of the index; the model
\* takes that many consecutive entries, in index order or reversed
MmrResults(index, k) ==
    LET m == Min(k, Len(index))
        runs == { SubSeq(index, a, a + m - 1) : a \in 1..(Len(index) - m + 1) }
    IN  runs \cup { Reverse(top) : top \in runs }

\* similarity_search(k, score_threshold): at most k entries, those that pass
\* the threshold; the model takes a run of consecutive entries
SimilarityResults(index, k) ==
    { SubSeq(index, a, a + n - 1) :
        <<a, n>> \in { p \in (1..Len(index)) \X (0..Min(k, MaxSimHits)) :
                         p[1] + p[2] - 1 <= Len(index) /\ (p[2] = 0 => p[1] = 1) } }

Contents(docs) == { docs[i].page_content : i \in 1..Len(docs) }

\* the merge loop appending every similarity hit
MergeFrom_no_dedupe(results, similarity_results, i) ==
    results \o SubSeq(similarity_results, i, Len(similarity_results))

\* the merge loop of search_local_documents
RECURSIVE MergeFrom(_, _, _)
MergeFrom(results, similarity_results, i) ==
    IF i > Len(similarity_results) THEN results
    ELSE IF similarity_results[i].page_content \notin Contents(results)
         THEN MergeFrom(Append(results, similarity_results[i]), similarity_results, i + 1)
         ELSE MergeFrom(results, similarity_results, i + 1)

\* search_local_documents without the test of self.vectorstore: the search is
\* called on None
search_local_documents_unguarded(store, mmr_results, similarity_results, search_raises) ==
    IF search_raises \/ ~store.built
    THEN [raised |-> TRUE, docs |-> <<>>]
    ELSE [raised |-> FALSE, docs |-> MergeFrom(mmr_results, similarity_results, 1)]

\* search_local_documents, given what the two searches return, or that a
\* search raises (nothing in search_local_documents catches it)
search_local_documents(store, mmr_results, similarity_results, search_raises) ==
    IF store.built
    THEN IF search_raises
         THEN [raised |-> TRUE, docs |-> <<>>]
         ELSE [raised |-> FALSE, docs |-> MergeFrom(mmr_results, similarity_results, 1)]
    ELSE [raised |-> FALSE, docs |-> <<>>]

(***************************************************************************)
(* RAGSystem: the nodes of the workflow, each the dict it returns.         *)
(***************************************************************************)
is_initialized == initialized /\ vectorstore.built

\* retrieve_documents; found: what search_local_documents did; when it raised
\* the except branch returns
retrieve_documents(st, found) ==
    IF found.raised
    THEN [query |-> st.query, documents |-> <<>>, web_results |-> <<>>]
    ELSE [query |-> st.query, documents |-> found.docs, web_results |-> <<>>]

\* doc.metadata.get("page", 0)
PageOr0(doc) == IF doc.has_page THEN doc.page ELSE 0

\* is_relevant without the topic-specific terms
is_relevant_no_anchor(doc, question) ==
    LET doc_text == Lower(doc.page_content)
        query_terms == Split(Lower(question))
    IN  \/ PageOr0(doc) <= IntroPages
        \/ \E term \in query_terms : Contains(doc_text, term)

\* is_relevant asking for all the query terms instead of any
is_relevant_all_terms(doc, question) ==
    LET doc_text == Lower(doc.page_content)
        query_terms == Split(Lower(question))
    IN  \/ PageOr0(doc) <= IntroPages
        \/ \A term \in query_terms : Contains(doc_text, term)
        \/ Contains(doc_text, "spiritual") \/ Contains(doc_text, "machine")
        \/ Contains(doc_text, "consciousness") \/ Contains(doc_text, "intelligence")

is_relevant(doc, question) ==
    LET doc_text == Lower(doc.page_content)
        query_terms == Split(Lower(question))
    IN  \/ PageOr0(doc) <= IntroPages
        \/ \E term \in query_terms : Contains(doc_text, term)
        \/ Contains(doc_text, "spiritual") \/ Contains(doc_text, "machine")
        \/ Contains(doc_text, "consciousness") \/ Contains(doc_text, "intelligence")

RECURSIVE FilterFrom(_, _, _)
FilterFrom(docs, question, i) ==
    IF i > Len(docs) THEN <<>>
    ELSE (IF is_relevant(docs[i], question) THEN <<docs[i]>> ELSE <<>>)
         \o FilterFrom(docs, question, i + 1)

\* grade_documents with <= in the test of the number of kept documents
grade_documents_le(st) ==
    LET question == st.query
        docs == StateGet(st, "documents", <<>>)
        filtered_docs == FilterFrom(docs, question, 1)
    IN  IF Len(docs) = 0
        THEN [query |-> question, documents |-> <<>>, web_search_needed |-> "Yes"]
        ELSE [query |-> question, documents |-> filtered_docs,
              web_search_needed |-> IF Len(filtered_docs) <= MinGraded THEN "Yes" ELSE "No"]

grade_documents(st) ==
    LET question == st.query
        docs == StateGet(st, "documents", <<>>)
        filtered_docs == FilterFrom(docs, question, 1)
    IN  IF Len(docs) = 0
        THEN [query |-> question, documents |-> <<>>, web_search_needed |-> "Yes"]
        ELSE [query |-> question, documents |-> filtered_docs,
              web_search_needed |-> IF Len(filtered_docs) < MinGraded THEN "Yes" ELSE "No"]

\* rewrite_query putting the rewritten text in place of the query
rewrite_query_overwrites(st, rewritten) ==
    [query |-> rewritten, rewritten_query |-> rewritten]

\* rewrite_query, when llm.predict returns rewritten
rewrite_query(st, rewritten) ==
    [query |-> st.query, rewritten_query |-> rewritten]

\* the text web_search hands to google_search:
\* state.get("rewritten_query", state["query"])
search_term(st) == StateGet(st, "rewritten_query", st.query)

\* the call of google_search with a search term, as kept in ext_calls
GoogleCall(term) == "google q=" \o term

\* web_search; raised: google_search raised, search_results = []
web_search(st, items, raised) ==
    [query |-> st.query, web_results |-> IF raised THEN <<>> ELSE items]

\* generate_answer, when llm.predict returns answer
\* metadata.get("source", "Unknown")
SourceOf(doc) == IF doc.has_source THEN doc.source ELSE "Unknown"

\* metadata.get("page", "N/A") as the f-string prints it
PageOf(doc) == IF doc.has_page THEN ToString(doc.page) ELSE "N/A"

PageKey(doc) == SourceOf(doc) \o "-" \o PageOf(doc)

\* the keys of docs_by_source, in the order of insertion
RECURSIVE SourcesFrom(_, _, _)
SourcesFrom(docs, i, found) ==
    IF i > Len(docs) THEN found
    ELSE SourcesFrom(docs, i + 1,
             IF \E j \in 1..Len(found) : found[j] = SourceOf(docs[i])
             THEN found ELSE Append(found, SourceOf(docs[i])))

docs_by_source(docs, source) ==
    LET OfSource(doc) == SourceOf(doc) = source
    IN  SelectSeq(docs, OfSource)

\* sorted(docs, key=page or 0): stable, a document goes after the documents
\* already placed whose page is not greater
RECURSIVE SortedByPageFrom(_, _, _)
SortedByPageFrom(docs, i, placed) ==
    IF i > Len(docs) THEN placed
    ELSE LET before == { j \in 1..Len(placed) : PageOr0(placed[j]) <= PageOr0(docs[i]) }
             n == Cardinality(before)
         IN  SortedByPageFrom(docs, i + 1,
                 SubSeq(placed, 1, n) \o <<docs[i]>> \o SubSeq(placed, n + 1, Len(placed)))

\* the documents left in the order received
SortedByPage_unsorted(docs) == docs

SortedByPage(docs) == SortedByPageFrom(docs, 1, <<>>)

SourceContext(doc) ==
    [page |-> PageOf(doc),
     text |-> "[Page " \o PageOf(doc) \o "]: " \o Strip(doc.page_content)]

\* the loop over one source's sorted documents: an entry for each page_key
\* not in seen_pages
RECURSIVE SourceContextsFrom(_, _, _)
SourceContextsFrom(docs, i, seen_pages) ==
    IF i > Len(docs) THEN <<>>
    ELSE IF PageKey(docs[i]) \notin seen_pages
         THEN <<SourceContext(docs[i])>>
              \o SourceContextsFrom(docs, i + 1, seen_pages \cup {PageKey(docs[i])})
         ELSE SourceContextsFrom(docs, i + 1, seen_pages)

\* the loop without the test of seen_pages
source_contexts_no_seen(docs, seen_pages) ==
    [i \in 1..Len(docs) |-> SourceContext(docs[i])]

source_contexts(docs, seen_pages) == SourceContextsFrom(docs, 1, seen_pages)

PageKeys(docs) == { PageKey(docs[i]) : i \in 1..Len(docs) }

\* the loop over the sources: a block for each source with entries
RECURSIVE DocContextsFrom(_, _, _, _)
DocContextsFrom(all_docs, sources, i, seen_pages) ==
    IF i > Len(sources) THEN <<>>
    ELSE LET docs == SortedByPage(docs_by_source(all_docs, sources[i]))
             entries == source_contexts(docs, seen_pages)
         IN  (IF Len(entries) > 0
              THEN <<[source |-> sources[i], pages |-> entries]>> ELSE <<>>)
             \o DocContextsFrom(all_docs, sources, i + 1,
                                seen_pages \cup PageKeys(docs))

doc_contexts(all_docs) ==
    DocContextsFrom(all_docs, SourcesFrom(all_docs, 1, <<>>), 1, {})

BlockText(block) ==
    "Source: " \o block.source \o "\n"
        \o Join([i \in 1..Len(block.pages) |-> block.pages[i].text], "\n\n")

doc_context(all_docs) ==
    LET blocks == doc_contexts(all_docs)
    IN  IF Len(blocks) > 0
        THEN Join([i \in 1..Len(blocks) |-> BlockText(blocks[i])], "\n\n---\n\n")
        ELSE "No relevant all_docs found."

WebContext(item, i) ==
    "[Result " \o ToString(i) \o "]\nTitle: " \o item.title
        \o "\nContent: " \o item.snippet \o "\nURL: " \o item.link

web_contexts(web_results) ==
    [i \in 1..Len(web_results) |-> WebContext(web_results[i], i)]

\* the web context with no marker for an empty list
web_context_no_marker(web_results) == Join(web_contexts(web_results), "\n\n")

web_context(web_results) ==
    IF Len(web_results) > 0
    THEN Join(web_contexts(web_results), "\n\n")
    ELSE "No web results available."

\* the prompt generate_answer gives to llm.predict
prompt(template, st) ==
    template \o "\n\n<input>\nQuestion: " \o st.query
        \o "\n\nDocument Context:\n" \o doc_context(StateGet(st, "documents", <<>>))
        \o "\n\nWeb Results:\n" \o web_context(StateGet(st, "web_results", <<>>))
        \o "\n</input>\n\n<CURRENT_CURSOR_POSITION>\nPlease provide your response:</prompt>"

generate_answer(st, answer) ==
    [query |-> st.query,
     documents |-> StateGet(st, "documents", <<>>),
     web_results |-> StateGet(st, "web_results", <<>>),
     answer |-> answer]

Keywords ==
    { "latest", "recent", "current", "new", "compare", "vs", "versus",
      "difference", "review", "today", "now", "update" }

\* decide_next_step deciding on the grader's flag and the keywords alone
decide_next_step_flag_only(st) ==
    LET web_search_needed == StateGet(st, "web_search_needed", "No")
        query == Lower(StateGet(st, "query", ""))
    IN  IF \/ web_search_needed = "Yes"
           \/ \E keyword \in Keywords : Contains(query, keyword)
        THEN "rewrite" ELSE "generate"

\* decide_next_step without the keyword override
decide_next_step_no_keywords(st) ==
    LET web_search_needed == StateGet(st, "web_search_needed", "No")
        docs == StateGet(st, "documents", <<>>)
    IN  IF \/ Len(docs) = 0
           \/ web_search_needed = "Yes"
           \/ Len(docs) < MinDocuments
        THEN "rewrite" ELSE "generate"

\* the conditional edge out of grade
decide_next_step(st) ==
    LET web_search_needed == StateGet(st, "web_search_needed", "No")
        docs == StateGet(st, "documents", <<>>)
        query == Lower(StateGet(st, "query", ""))
        should_web_search ==
            \/ Len(docs) = 0
            \/ web_search_needed = "Yes"
            \/ Len(docs) < MinDocuments
            \/ \E keyword \in Keywords : Contains(query, keyword)
    IN  IF should_web_search THEN "rewrite" ELSE "generate"

\* create_workflow with the edge out of web_search wired to END
NextNode_web_search_to_end(node, st) ==
    CASE node = "retrieve" -> "grade"
      [] node = "grade" -> decide_next_step(st)
      [] node = "rewrite" -> "web_search"
      [] node = "web_search" -> "END"
      [] node = "generate" -> "END"

\* create_workflow with the edge out of generate wired back to retrieve
NextNode_generate_to_retrieve(node, st) ==
    CASE node = "retrieve" -> "grade"
      [] node = "grade" -> decide_next_step(st)
      [] node = "rewrite" -> "web_search"
      [] node = "web_search" -> "generate"
      [] node = "generate" -> "retrieve"

\* create_workflow with the edge out of rewrite wired to generate
NextNode_rewrite_to_generate(node, st) ==
    CASE node = "retrieve" -> "grade"
      [] node = "grade" -> decide_next_step(st)
      [] node = "rewrite" -> "generate"
      [] node = "web_search" -> "generate"
      [] node = "generate" -> "END"

\* the edges of create_workflow: the node that follows node on state st
NextNode(node, st) ==
    CASE node = "retrieve" -> "grade"
      [] node = "grade" -> decide_next_step(st)
      [] node = "rewrite" -> "web_search"
      [] node = "web_search" -> "generate"
      [] node = "generate" -> "END"

EntryPoint == "retrieve"

(***************************************************************************)
(* The state machine.                                                      *)
(***************************************************************************)
NoResult == [kind |-> "none", value |-> ""]
NoCall == [op |-> "none"]
Pending == [kind |-> "pending", value |-> ""]
Returned(text) == [kind |-> "returned", value |-> text]
Raised == [kind |-> "raised", value |-> ""]

\* RAGSystem.__init__ over VectorStoreManager.__init__
Init ==
    /\ documents \in DocumentSets
    /\ vectorstore = NoneStore
    /\ workflow = "None"
    /\ initialized = FALSE
    /\ default_prompt = DefaultPrompt
    /\ current_prompt = DefaultPrompt
    /\ init_returned = "none"
    /\ pc = "idle"
    /\ state = EmptyState
    /\ ran = <<>>
    /\ run_status = "none"
    /\ result = NoResult
    /\ faults = {}
    /\ start_prompt = ""
    /\ llm_prompt = ""
    /\ ext_calls = {}
    /\ build = NoBuild
    /\ search = NoSearch
    /\ other = NoRun
    /\ session_documents = <<>>
    /\ rag_system = NoRag
    /\ slack_bot = NoBot
    /\ bot_running = FALSE
    /\ bot_threads = {}
    /\ delivered = NoDelivery
    /\ call = NoCall

\* initialize_system not looking at what create_vectorstore returned
InitializeSystem_unchecked ==
    \E embed_ok \in BOOLEAN :
        LET made == create_vectorstore(documents, vectorstore, embed_ok)
        IN  /\ vectorstore' = made.store
            /\ ext_calls' = ext_calls \cup made.called
            /\ workflow' = "compiled"
            /\ initialized' = TRUE
            /\ init_returned' = "True"
            /\ UNCHANGED <<documents, promptvars, runvars, call, auxvars>>

\* initialize_system
InitializeSystem ==
    \E embed_ok \in BOOLEAN :
        LET made == create_vectorstore(documents, vectorstore, embed_ok)
        IN  /\ vectorstore' = made.store
            /\ ext_calls' = ext_calls \cup made.called
            /\ IF made.ok
               THEN /\ workflow' = "compiled"
                    /\ initialized' = TRUE
                    /\ init_returned' = "True"
               ELSE /\ workflow' = workflow
                    /\ initialized' = FALSE
                    /\ init_returned' = "False"
            /\ UNCHANGED <<documents, promptvars, runvars, call, auxvars>>

\* vectorstore_manager.create_vectorstore called on its own
CreateVectorstore ==
    \E embed_ok \in BOOLEAN :
        LET made == create_vectorstore(documents, vectorstore, embed_ok)
        IN  /\ vectorstore' = made.store
            /\ ext_calls' = ext_calls \cup made.called
            /\ UNCHANGED <<documents, workflow, initialized, init_returned, promptvars, runvars, call, auxvars>>

\* reset_system over VectorStoreManager.reset
ResetSystem ==
    /\ vectorstore' = NoneStore
    /\ workflow' = "None"
    /\ UNCHANGED <<documents, initialized, init_returned, promptvars, runvars, ext_calls, call, auxvars>>

\* process_query without its try/except: the exception reaches the caller
process_query_reraise == Raised

\* what the except clause of process_query makes of an exception
process_query_except == Returned(ErrorMsg)

\* process_query(query) up to the readiness check
StartQuery(query) ==
    /\ ran' = <<>>
    /\ run_status' = "none"
    /\ faults' = {}
    /\ start_prompt' = current_prompt
    /\ llm_prompt' = ""
    /\ IF ~is_initialized
       THEN /\ result' = Returned(NotInitializedMsg)
            /\ pc' = "idle"
            /\ state' = EmptyState
       ELSE /\ result' = Pending
            /\ pc' = "invoke"
            /\ state' = InputState(query)

ProcessQuery ==
    /\ pc = "idle"
    /\ \E query \in Queries : StartQuery(query)
    /\ UNCHANGED <<sysvars, ext_calls, call, auxvars>>

\* self.workflow.invoke: the graph starts at its entry point, or the call on
\* None raises into the except clause
Invoke ==
    /\ pc = "invoke"
    /\ IF workflow = "None"
       THEN /\ pc' = "idle"
            /\ result' = process_query_except
            /\ run_status' = "none"
       ELSE /\ pc' = EntryPoint
            /\ result' = result
            /\ run_status' = "running"
    /\ UNCHANGED <<sysvars, state, ran, faults, start_prompt, llm_prompt, ext_calls, call, auxvars>>

\* a node returned upd: its writes, then the edge out of it
NodeReturns(node, upd) ==
    /\ state' = ApplyUpdate(state, upd)
    /\ ran' = Append(ran, node)
    /\ pc' = NextNode(node, ApplyUpdate(state, upd))
    /\ UNCHANGED <<sysvars, run_status, result, start_prompt, call, auxvars>>

\* a node raised: the exception leaves invoke for the except clause
NodeRaises(node) ==
    /\ ran' = Append(ran, node)
    /\ pc' = "idle"
    /\ run_status' = "aborted"
    /\ result' = process_query_except
    /\ UNCHANGED <<sysvars, state, start_prompt, call, auxvars>>

Retrieve ==
    /\ pc = "retrieve"
    /\ IF vectorstore.built
       THEN /\ \E raised \in BOOLEAN :
               \E mmr \in MmrResults(vectorstore.docs, MmrK) :
               \E sim \in SimilarityResults(vectorstore.docs, SimilarityK) :
                  LET found == search_local_documents(vectorstore, mmr, sim, raised)
                  IN  /\ NodeReturns("retrieve", retrieve_documents(state, found))
                      /\ faults' = IF found.raised
                                   THEN faults \cup {"embeddings"} ELSE faults
            /\ ext_calls' = ext_calls \cup {"embeddings"}
       ELSE LET found == search_local_documents(vectorstore, <<>>, <<>>, FALSE)
            IN  /\ NodeReturns("retrieve", retrieve_documents(state, found))
                /\ faults' = IF found.raised
                             THEN faults \cup {"embeddings"} ELSE faults
                /\ UNCHANGED ext_calls
    /\ UNCHANGED llm_prompt

Grade ==
    /\ pc = "grade"
    /\ NodeReturns("grade", grade_documents(state))
    /\ UNCHANGED <<faults, llm_prompt, ext_calls>>

Rewrite ==
    /\ pc = "rewrite"
    /\ \E rewritten \in LlmRewrites : NodeReturns("rewrite", rewrite_query(state, rewritten))
    /\ ext_calls' = ext_calls \cup {"llm"}
    /\ UNCHANGED <<faults, llm_prompt>>

\* llm.predict raises inside rewrite_query, which catches nothing
RewriteRaises ==
    /\ pc = "rewrite"
    /\ NodeRaises("rewrite")
    /\ ext_calls' = ext_calls \cup {"llm"}
    /\ faults' = faults \cup {"llm"}
    /\ UNCHANGED llm_prompt

\* web_search with google_search raising and the exception not caught
WebSearch_uncaught ==
    /\ pc = "web_search"
    /\ \E raised \in BOOLEAN :
       \E items \in WebResults(NumResults) :
          /\ IF raised
             THEN NodeRaises("web_search")
             ELSE NodeReturns("web_search", web_search(state, items, raised))
          /\ faults' = IF raised THEN faults \cup {"google"} ELSE faults
    /\ ext_calls' = ext_calls \cup {"google", GoogleCall(search_term(state))}
    /\ UNCHANGED llm_prompt

WebSearch ==
    /\ pc = "web_search"
    /\ \E raised \in BOOLEAN :
       \E items \in WebResults(NumResults) :
          /\ NodeReturns("web_search", web_search(state, items, raised))
          /\ faults' = IF raised THEN faults \cup {"google"} ELSE faults
    /\ ext_calls' = ext_calls \cup {"google", GoogleCall(search_term(state))}
    /\ UNCHANGED llm_prompt

Generate ==
    /\ pc = "generate"
    /\ \E answer \in LlmAnswers : NodeReturns("generate", generate_answer(state, answer))
    /\ llm_prompt' = prompt(current_prompt, state)
    /\ ext_calls' = ext_calls \cup {"llm"}
    /\ UNCHANGED faults

\* llm.predict raises inside generate_answer, which catches nothing
GenerateRaises ==
    /\ pc = "generate"
    /\ NodeRaises("generate")
    /\ llm_prompt' = prompt(current_prompt, state)
    /\ ext_calls' = ext_calls \cup {"llm"}
    /\ faults' = faults \cup {"llm"}

\* invoke returned the final state: response.get("answer", ...)
Return ==
    /\ pc = "END"
    /\ pc' = "idle"
    /\ run_status' = "ended"
    /\ result' = Returned(StateGet(state, "answer", NoAnswerMsg))
    /\ UNCHANGED <<sysvars, state, ran, faults, start_prompt, llm_prompt, ext_calls, call, auxvars>>

Next ==
    \/ InitializeSystem
    \/ CreateVectorstore
    \/ ResetSystem
    \/ ProcessQuery
    \/ Invoke
    \/ Retrieve
    \/ Grade
    \/ Rewrite
    \/ RewriteRaises
    \/ WebSearch
    \/ Generate
    \/ GenerateRaises
    \/ Return

Spec == Init /\ [][Next]_vars

(***************************************************************************)
(* The prompt template changed from the page's thread while the bot's      *)
(* thread runs queries on the same RAGSystem.                              *)
(***************************************************************************)
PromptDocumentSets == { <<"short.pdf">> }

PromptInit ==
    /\ Init
    /\ documents \in PromptDocumentSets

\* update_prompt that also overwrites the default template
UpdatePrompt_overwrites_default ==
    /\ \E new_prompt \in NewPrompts :
          /\ current_prompt' = new_prompt
          /\ default_prompt' = new_prompt
    /\ UNCHANGED <<documents, vectorstore, workflow, initialized, init_returned,
                   runvars, ext_calls, call, auxvars>>

UpdatePrompt ==
    /\ \E new_prompt \in NewPrompts : current_prompt' = new_prompt
    /\ UNCHANGED <<documents, vectorstore, workflow, initialized, init_returned,
                   default_prompt, runvars, ext_calls, call, auxvars>>

ResetPrompt ==
    /\ current_prompt' = default_prompt
    /\ UNCHANGED <<documents, vectorstore, workflow, initialized, init_returned,
                   default_prompt, runvars, ext_calls, call, auxvars>>

PromptNext ==
    \/ Next
    \/ UpdatePrompt
    \/ ResetPrompt

SpecPrompt == PromptInit /\ [][PromptNext]_vars

(***************************************************************************)
(* The components called on their own: a VectorStoreManager that is built  *)
(* and reset, and its search called directly.                              *)
(***************************************************************************)
CallDocumentSets == { <<"long.pdf">>, <<"scan.pdf">>, <<"empty.txt">> }

CallsInit ==
    /\ documents \in CallDocumentSets
    /\ vectorstore = NoneStore
    /\ workflow = "None"
    /\ initialized = FALSE
    /\ default_prompt = DefaultPrompt
    /\ current_prompt = DefaultPrompt
    /\ init_returned = "none"
    /\ pc = "idle"
    /\ state = EmptyState
    /\ ran = <<>>
    /\ run_status = "none"
    /\ result = NoResult
    /\ faults = {}
    /\ start_prompt = ""
    /\ llm_prompt = ""
    /\ ext_calls = {}
    /\ build = NoBuild
    /\ search = NoSearch
    /\ other = NoRun
    /\ session_documents = <<>>
    /\ rag_system = NoRag
    /\ slack_bot = NoBot
    /\ bot_running = FALSE
    /\ bot_threads = {}
    /\ delivered = NoDelivery
    /\ call = NoCall

\* vectorstore_manager.search_local_documents(query)
SearchLocalDocuments ==
    /\ IF vectorstore.built
       THEN /\ \E raised \in BOOLEAN :
               \E mmr \in MmrResults(vectorstore.docs, MmrK) :
               \E sim \in SimilarityResults(vectorstore.docs, SimilarityK) :
                  LET found == search_local_documents(vectorstore, mmr, sim, raised)
                  IN  call' = [op |-> "search", built |-> TRUE,
                               mmr |-> IF raised THEN <<>> ELSE mmr,
                               sim |-> IF raised THEN <<>> ELSE sim,
                               raised |-> found.raised, out |-> found.docs]
            /\ ext_calls' = ext_calls \cup {"embeddings"}
       ELSE /\ LET found == search_local_documents(vectorstore, <<>>, <<>>, FALSE)
               IN  call' = [op |-> "search", built |-> FALSE,
                            mmr |-> <<>>, sim |-> <<>>,
                            raised |-> found.raised, out |-> found.docs]
            /\ UNCHANGED ext_calls
    /\ UNCHANGED <<sysvars, runvars, auxvars>>

\* the queries of the direct calls of grade_documents
GradeQueries ==
    { "rivers", "Rivers appendix", "SECTION rivers appendix",
      "maps", "old maps zebra", "explain" }

\* the state a node is called on: a query and the documents retrieved for it
StateWith(query, docs) == ApplyUpdate(InputState(query), [documents |-> docs])

\* rag.grade_documents(state) called for two queries on the same documents
GradeDocuments ==
    /\ vectorstore.built
    /\ \E docs \in {vectorstore.docs} :
       \E graded \in {[q \in GradeQueries |-> grade_documents(StateWith(q, docs))]} :
       \E q1 \in GradeQueries :
       \E q2 \in GradeQueries :
          call' = [op |-> "grade", docs |-> docs, q1 |-> q1, q2 |-> q2,
                   out1 |-> graded[q1], out2 |-> graded[q2]]
    /\ UNCHANGED <<sysvars, runvars, ext_calls, auxvars>>

CallsNext ==
    \/ CreateVectorstore
    \/ ResetSystem
    \/ SearchLocalDocuments
    \/ GradeDocuments

SpecCalls == CallsInit /\ [][CallsNext]_vars

(***************************************************************************)
(* load_documents called on its own, on document sets that mix files that  *)
(* load with files that do not decode, do not open or have another         *)
(* extension, in every order.                                              *)
(***************************************************************************)
LoadFiles ==
    { "bad.csv", "Broken.PDF", "image.png", "notes.txt", "short.pdf", "blank.pdf" }

\* the dicts of at most MaxLoadFiles of these files (a dict has no key twice)
LoadDocumentSets ==
    { files \in UNION { [1..n -> LoadFiles] : n \in 0..MaxLoadFiles } :
        \A i \in 1..Len(files) : \A j \in 1..Len(files) :
            files[i] = files[j] => i = j }

LoadInit ==
    /\ documents \in LoadDocumentSets
    /\ vectorstore = NoneStore
    /\ workflow = "None"
    /\ initialized = FALSE
    /\ default_prompt = DefaultPrompt
    /\ current_prompt = DefaultPrompt
    /\ init_returned = "none"
    /\ pc = "idle"
    /\ state = EmptyState
    /\ ran = <<>>
    /\ run_status = "none"
    /\ result = NoResult
    /\ faults = {}
    /\ start_prompt = ""
    /\ llm_prompt = ""
    /\ ext_calls = {}
    /\ build = NoBuild
    /\ search = NoSearch
    /\ other = NoRun
    /\ session_documents = <<>>
    /\ rag_system = NoRag
    /\ slack_bot = NoBot
    /\ bot_running = FALSE
    /\ bot_threads = {}
    /\ delivered = NoDelivery
    /\ call = NoCall

\* vectorstore_manager.load_documents()
LoadDocuments ==
    /\ call' = [op |-> "load_documents", files |-> documents,
                out |-> load_documents(documents)]
    /\ UNCHANGED <<sysvars, runvars, ext_calls, auxvars>>

LoadNext == LoadDocuments

SpecLoad == LoadInit /\ [][LoadNext]_vars

(***************************************************************************)
(* A VectorStoreManager used from two threads: create_vectorstore runs on  *)
(* one while search_local_documents runs on the other, each step one read  *)
(* or write of self.vectorstore.                                           *)
(***************************************************************************)
IndexDocumentSets == { <<"short.pdf">>, <<"notes.txt">>, <<"five.pdf">> }

IndexInit ==
    /\ Init
    /\ documents \in IndexDocumentSets

\* create_vectorstore up to the call of FAISS.from_documents
BuildStart ==
    /\ build.pc = "idle"
    /\ LET docs == load_documents(documents)
           splits == split_documents(docs)
       IN  IF Len(docs) = 0 \/ Len(splits) = 0
           THEN build' = NoBuild
           ELSE build' = [pc |-> "embedding", splits |-> splits, embedded |-> 0]
    /\ UNCHANGED <<sysvars, runvars, ext_calls, call, search, homevars, other>>

\* FAISS.from_documents that stores each entry in self.vectorstore as it is
\* embedded
BuildEmbed_publishes ==
    /\ build.pc = "embedding"
    /\ build.embedded < Len(build.splits)
    /\ \E embed_ok \in BOOLEAN :
          IF embed_ok
          THEN /\ build' = [build EXCEPT !.embedded = @ + 1]
               /\ vectorstore' = [built |-> TRUE,
                                  docs |-> SubSeq(build.splits, 1, build.embedded + 1)]
          ELSE /\ build' = NoBuild
               /\ UNCHANGED vectorstore
    /\ ext_calls' = ext_calls \cup {"embeddings"}
    /\ UNCHANGED <<documents, workflow, initialized, init_returned, promptvars,
                   runvars, call, search, homevars, other>>

\* FAISS.from_documents at work on an index of its own: one more entry
\* embedded, or the embeddings service raises and create_vectorstore
\* returns False
BuildEmbed ==
    /\ build.pc = "embedding"
    /\ build.embedded < Len(build.splits)
    /\ \E embed_ok \in BOOLEAN :
          build' = IF embed_ok THEN [build EXCEPT !.embedded = @ + 1] ELSE NoBuild
    /\ ext_calls' = ext_calls \cup {"embeddings"}
    /\ UNCHANGED <<sysvars, runvars, call, search, homevars, other>>

\* self.vectorstore = the index FAISS.from_documents returned
BuildPublish ==
    /\ build.pc = "embedding"
    /\ build.embedded = Len(build.splits)
    /\ vectorstore' = [built |-> TRUE, docs |-> build.splits]
    /\ build' = NoBuild
    /\ UNCHANGED <<documents, workflow, initialized, init_returned, promptvars,
                   runvars, ext_calls, call, search, homevars, other>>

\* search_local_documents: `if self.vectorstore`
SearchTest ==
    /\ search.pc \in {"idle", "returned", "raised"}
    /\ search' = IF vectorstore.built
                 THEN [NoSearch EXCEPT !.pc = "mmr", !.read = <<vectorstore>>]
                 ELSE [NoSearch EXCEPT !.pc = "returned"]
    /\ UNCHANGED <<sysvars, runvars, ext_calls, call, build, homevars, other>>

\* self.vectorstore.max_marginal_relevance_search: the attribute is read
\* again, and the call raises on None or when the embeddings service fails
SearchMmr ==
    /\ search.pc = "mmr"
    /\ IF vectorstore.built
       THEN \E raised \in BOOLEAN :
            \E mmr \in MmrResults(vectorstore.docs, MmrK) :
               search' = IF raised
                         THEN [search EXCEPT !.pc = "raised"]
                         ELSE [search EXCEPT !.pc = "sim", !.mmr = mmr,
                                             !.read = Append(@, vectorstore)]
       ELSE search' = [search EXCEPT !.pc = "raised"]
    /\ ext_calls' = IF vectorstore.built THEN ext_calls \cup {"embeddings"} ELSE ext_calls
    /\ UNCHANGED <<sysvars, runvars, call, build, homevars, other>>

\* self.vectorstore.similarity_search, then the merge and the return
SearchSimilarity ==
    /\ search.pc = "sim"
    /\ IF vectorstore.built
       THEN \E raised \in BOOLEAN :
            \E sim \in SimilarityResults(vectorstore.docs, SimilarityK) :
               search' = IF raised
                         THEN [search EXCEPT !.pc = "raised"]
                         ELSE [search EXCEPT !.pc = "returned",
                                             !.read = Append(@, vectorstore),
                                             !.out = MergeFrom(search.mmr, sim, 1)]
       ELSE search' = [search EXCEPT !.pc = "raised"]
    /\ ext_calls' = IF vectorstore.built THEN ext_calls \cup {"embeddings"} ELSE ext_calls
    /\ UNCHANGED <<sysvars, runvars, call, build, homevars, other>>

IndexNext ==
    \/ BuildStart
    \/ BuildEmbed
    \/ BuildPublish
    \/ ResetSystem
    \/ SearchTest
    \/ SearchMmr
    \/ SearchSimilarity

SpecIndex == IndexInit /\ [][IndexNext]_vars

(***************************************************************************)
(* Two process_query calls on one RAGSystem, each on its own thread: the   *)
(* run of pc and state, and a second run kept in other.                    *)
(***************************************************************************)
TwoRunsDocumentSets == { <<"notes.txt">> }

TwoRunsInit ==
    /\ Init
    /\ documents \in TwoRunsDocumentSets

\* the second process_query call up to the readiness check
OtherProcessQuery ==
    /\ other.pc = "none"
    /\ \E query \in Queries :
          other' = IF ~is_initialized
                   THEN [pc |-> "done", query |-> query, state |-> EmptyState,
                         ran |-> <<>>, result |-> Returned(NotInitializedMsg)]
                   ELSE [pc |-> "invoke", query |-> query, state |-> InputState(query),
                         ran |-> <<>>, result |-> Pending]
    /\ UNCHANGED <<sysvars, runvars, ext_calls, call, build, search, homevars>>

\* a node of the run returned upd
RunReturns(run, node, upd) ==
    [run EXCEPT !.state = ApplyUpdate(run.state, upd),
                !.ran = Append(@, node),
                !.pc = NextNode(node, ApplyUpdate(run.state, upd))]

\* a node of the run raised
RunRaises(run, node) ==
    [run EXCEPT !.ran = Append(@, node), !.pc = "done", !.result = process_query_except]

\* what the next step of a run in flight can make of it
RunSteps(run) ==
    CASE run.pc = "invoke" ->
           IF workflow = "None"
           THEN { [run EXCEPT !.pc = "done", !.result = process_query_except] }
           ELSE { [run EXCEPT !.pc = EntryPoint] }
      [] run.pc = "retrieve" ->
           IF vectorstore.built
           THEN { RunReturns(run, "retrieve",
                      retrieve_documents(run.state,
                          search_local_documents(vectorstore, mmr, sim, raised))) :
                    mmr \in MmrResults(vectorstore.docs, MmrK),
                    sim \in SimilarityResults(vectorstore.docs, SimilarityK),
                    raised \in BOOLEAN }
           ELSE { RunReturns(run, "retrieve",
                      retrieve_documents(run.state,
                          search_local_documents(vectorstore, <<>>, <<>>, FALSE))) }
      [] run.pc = "grade" ->
           { RunReturns(run, "grade", grade_documents(run.state)) }
      [] run.pc = "rewrite" ->
           { RunReturns(run, "rewrite", rewrite_query(run.state, rewritten)) :
               rewritten \in LlmRewrites }
           \cup { RunRaises(run, "rewrite") }
      [] run.pc = "web_search" ->
           { RunReturns(run, "web_search", web_search(run.state, items, raised)) :
               items \in WebResults(NumResults), raised \in BOOLEAN }
      [] run.pc = "generate" ->
           { RunReturns(run, "generate", generate_answer(run.state, answer)) :
               answer \in LlmAnswers }
           \cup { RunRaises(run, "generate") }
      [] run.pc = "END" ->
           { [run EXCEPT !.pc = "done",
                         !.result = Returned(StateGet(run.state, "answer", NoAnswerMsg))] }
      [] OTHER -> {}

ServiceOf(node) ==
    CASE node \in {"rewrite", "generate"} -> {"llm"}
      [] node = "web_search" -> {"google"}
      [] node = "retrieve" -> IF vectorstore.built THEN {"embeddings"} ELSE {}
      [] OTHER -> {}

\* a step of the second run with the two runs sharing one GraphState
OtherStep_shared_state ==
    /\ other.pc \notin {"none", "done"}
    /\ \E next \in RunSteps([other EXCEPT !.state = state]) :
          /\ other' = next
          /\ state' = next.state
    /\ ext_calls' = ext_calls \cup ServiceOf(other.pc)
    /\ UNCHANGED <<sysvars, pc, ran, run_status, result, faults, start_prompt,
                   llm_prompt, call, build, search, homevars>>

\* a step of the second run
OtherStep ==
    /\ other.pc \notin {"none", "done"}
    /\ \E next \in RunSteps(other) : other' = next
    /\ ext_calls' = ext_calls \cup ServiceOf(other.pc)
    /\ UNCHANGED <<sysvars, runvars, call, build, search, homevars>>

TwoRunsNext ==
    \/ InitializeSystem
    \/ ProcessQuery
    \/ Invoke
    \/ Retrieve
    \/ Grade
    \/ Rewrite
    \/ RewriteRaises
    \/ WebSearch
    \/ Generate
    \/ GenerateRaises
    \/ Return
    \/ OtherProcessQuery
    \/ OtherStep

SpecTwoRuns == TwoRunsInit /\ [][TwoRunsNext]_vars

(***************************************************************************)
(* slack_bot.py: one SlackBot over the RAGSystem, started and stopped      *)
(* while the messages its handler receives are answered.                   *)
(***************************************************************************)
BotDocumentSets == { <<"notes.txt">> }

\* SlackBot(rag_system, credentials): app, handler and thread are None
NewSlackBot ==
    [exists |-> TRUE, app |-> "None", handler |-> "None", thread |-> "None",
     running |-> FALSE]

BotInit ==
    /\ documents \in BotDocumentSets
    /\ vectorstore = NoneStore
    /\ workflow = "None"
    /\ initialized = FALSE
    /\ default_prompt = DefaultPrompt
    /\ current_prompt = DefaultPrompt
    /\ init_returned = "none"
    /\ pc = "idle"
    /\ state = EmptyState
    /\ ran = <<>>
    /\ run_status = "none"
    /\ result = NoResult
    /\ faults = {}
    /\ start_prompt = ""
    /\ llm_prompt = ""
    /\ ext_calls = {}
    /\ build = NoBuild
    /\ search = NoSearch
    /\ other = NoRun
    /\ session_documents = <<>>
    /\ rag_system = NoRag
    /\ slack_bot = NewSlackBot
    /\ bot_running = FALSE
    /\ bot_threads = {}
    /\ delivered = NoDelivery
    /\ call = NoCall

\* SlackBot.is_running()
is_running(bot) == bot.running /\ bot.thread = "alive"

\* SlackBot.cleanup(); close_raises: handler.close() raises, and cleanup with it
cleanup(bot, close_raises) ==
    IF bot.handler # "None" /\ close_raises
    THEN [raised |-> TRUE, bot |-> bot]
    ELSE [raised |-> FALSE,
          bot |-> [bot EXCEPT !.handler = "None", !.app = "None",
                              !.thread = "None", !.running = FALSE]]

\* SlackBot.stop(): what it returns and leaves in the object
stop(bot, close_raises) ==
    LET cleaned == cleanup(bot, close_raises)
    IN  IF cleaned.raised
        THEN [returned |-> "False", bot |-> cleaned.bot]
        ELSE [returned |-> "True", bot |-> cleaned.bot]

\* the fields start has assigned when the statement named by fails raises
StartedUpTo(bot, fails) ==
    CASE fails = "app" -> bot
      [] fails = "handler" -> [bot EXCEPT !.app = "app"]
      [] fails = "thread" ->
            [bot EXCEPT !.app = "app", !.handler = "open", !.thread = "unstarted"]
      [] OTHER ->
            [bot EXCEPT !.app = "app", !.handler = "open", !.thread = "alive",
                        !.running = TRUE]

\* SlackBot.start(); fails: the statement that raises ("none": none does)
start(bot, ready, fails, close_raises) ==
    IF ~ready
    THEN [returned |-> "False", bot |-> bot]
    ELSE IF fails = "none"
    THEN [returned |-> "True", bot |-> StartedUpTo(bot, fails)]
    ELSE LET cleaned == cleanup([StartedUpTo(bot, fails) EXCEPT !.running = FALSE],
                                close_raises)
         IN  IF cleaned.raised
             THEN [returned |-> "raised", bot |-> cleaned.bot]
             ELSE [returned |-> "False", bot |-> cleaned.bot]

StartFailures == { "none", "app", "handler", "thread" }

\* slack_bot.start()
BotStart ==
    /\ \E fails \in StartFailures :
       \E close_raises \in BOOLEAN :
       \E done \in {start(slack_bot, is_initialized, fails, close_raises)} :
          /\ slack_bot' = done.bot
          /\ call' = [op |-> "start", fails |-> fails, returned |-> done.returned]
    /\ UNCHANGED <<sysvars, runvars, ext_calls, build, search, other,
                   session_documents, rag_system, bot_running, bot_threads, delivered>>

\* a stop that also resets the RAGSystem and its prompt
BotStop_resets_system ==
    /\ \E close_raises \in BOOLEAN :
       \E done \in {stop(slack_bot, close_raises)} :
          /\ slack_bot' = done.bot
          /\ call' = [op |-> "stop", returned |-> done.returned]
    /\ vectorstore' = NoneStore
    /\ workflow' = "None"
    /\ current_prompt' = default_prompt
    /\ UNCHANGED <<documents, initialized, init_returned, default_prompt, runvars,
                   ext_calls, build, search, other, session_documents, rag_system,
                   bot_running, bot_threads, delivered>>

\* slack_bot.stop()
BotStop ==
    /\ \E close_raises \in BOOLEAN :
       \E done \in {stop(slack_bot, close_raises)} :
          /\ slack_bot' = done.bot
          /\ call' = [op |-> "stop", returned |-> done.returned]
    /\ UNCHANGED <<sysvars, runvars, ext_calls, build, search, other,
                   session_documents, rag_system, bot_running, bot_threads, delivered>>

\* slack_bot.cleanup() called on its own
BotCleanup ==
    /\ \E close_raises \in BOOLEAN :
       \E done \in {cleanup(slack_bot, close_raises)} :
          /\ slack_bot' = done.bot
          /\ call' = [op |-> "cleanup",
                      returned |-> IF done.raised THEN "raised" ELSE "None"]
    /\ UNCHANGED <<sysvars, runvars, ext_calls, build, search, other,
                   session_documents, rag_system, bot_running, bot_threads, delivered>>

\* the thread running handler.start ends
ThreadEnds ==
    /\ slack_bot.thread = "alive"
    /\ slack_bot' = [slack_bot EXCEPT !.thread = "dead"]
    /\ UNCHANGED <<sysvars, runvars, ext_calls, call, build, search, other,
                   session_documents, rag_system, bot_running, bot_threads, delivered>>

\* say(text): the reply is posted, or the call raises and nothing is posted
Say(msg, text, say_ok) ==
    [msg EXCEPT !.says = @ + 1,
                !.replies = IF say_ok THEN Append(@, text) ELSE @,
                !.say_raised = @ \/ ~say_ok]

\* rag_system.process_message(text): RAGSystem has no such method, the
\* attribute lookup raises
process_message(text) == Raised

\* the texts of the messages the handler is given
BotQueries == { "Explain zebra habitat" }

\* _handle_direct_message from its start to the call of process_query: the
\* handler of an open socket is given a message
HandlerReceives ==
    /\ slack_bot.handler = "open"
    /\ delivered.op \in {"none", "done"}
    /\ pc = "idle"
    /\ \E text \in BotQueries :
       \E say_ok \in BOOLEAN :
          LET msg == [op |-> "received", text |-> text, path |-> "", says |-> 0,
                      replies |-> <<>>, say_raised |-> FALSE,
                      response |-> NoResult, fallback |-> NoResult]
          IN  IF ~is_initialized
              THEN delivered' =
                      [Say(msg, NotInitializedMsg, say_ok) EXCEPT
                          !.op = IF say_ok THEN "done" ELSE "outer_except",
                          !.path = "not_initialized"]
              ELSE delivered' = msg
    /\ UNCHANGED <<sysvars, runvars, ext_calls, call, build, search, other,
                   session_documents, rag_system, slack_bot, bot_running, bot_threads>>

\* self.rag_system.process_query(message['text'])
HandlerProcessQuery ==
    /\ delivered.op = "received"
    /\ pc = "idle"
    /\ StartQuery(delivered.text)
    /\ delivered' = [delivered EXCEPT !.op = "workflow"]
    /\ UNCHANGED <<sysvars, ext_calls, call, build, search, other,
                   session_documents, rag_system, slack_bot, bot_running, bot_threads>>

\* _handle_direct_message once process_query returned or raised, without the
\* return after say(response)
HandlerReplies_falls_through ==
    /\ delivered.op = "workflow"
    /\ pc = "idle"
    /\ result.kind \in {"returned", "raised"}
    /\ \E say_ok \in BOOLEAN :
       \E fell_back \in {process_message(delivered.text)} :
          LET got == [delivered EXCEPT !.response = result]
              said == IF result.kind = "returned" /\ result.value # ""
                      THEN Say(got, result.value, say_ok) ELSE got
          IN  delivered' =
                  [said EXCEPT !.op = "outer_except", !.path = "fallback",
                               !.fallback = fell_back]
    /\ UNCHANGED <<sysvars, runvars, ext_calls, call, build, search, other,
                   session_documents, rag_system, slack_bot, bot_running, bot_threads>>

\* _handle_direct_message once process_query returned or raised: the answer
\* is said, or the fallback is called; an exception of say(response) is
\* caught by the inner except and leads to the fallback too
HandlerReplies ==
    /\ delivered.op = "workflow"
    /\ pc = "idle"
    /\ result.kind \in {"returned", "raised"}
    /\ \E say_ok \in BOOLEAN :
       \E fell_back \in {process_message(delivered.text)} :
       \E fallback_say_ok \in BOOLEAN :
          LET got == [delivered EXCEPT !.response = result]
              said == Say(got, result.value, say_ok)
              after == IF result.kind = "returned" /\ result.value # "" THEN said ELSE got
          IN  IF result.kind = "returned" /\ result.value # "" /\ say_ok
              THEN delivered' = [said EXCEPT !.op = "done", !.path = "workflow"]
              ELSE IF fell_back.kind = "returned"
              THEN delivered' =
                      [Say([after EXCEPT !.fallback = fell_back],
                           fell_back.value, fallback_say_ok) EXCEPT
                          !.op = IF fallback_say_ok THEN "done" ELSE "outer_except",
                          !.path = "fallback"]
              ELSE delivered' =
                      [after EXCEPT !.op = "outer_except", !.path = "fallback",
                                    !.fallback = fell_back]
    /\ UNCHANGED <<sysvars, runvars, ext_calls, call, build, search, other,
                   session_documents, rag_system, slack_bot, bot_running, bot_threads>>

\* the outer except clause: say(the error message); when this say raises the
\* exception leaves the handler
HandlerExcept ==
    /\ delivered.op = "outer_except"
    /\ \E say_ok \in BOOLEAN :
          delivered' = [Say(delivered, HandlerErrorMsg, say_ok) EXCEPT !.op = "done"]
    /\ UNCHANGED <<sysvars, runvars, ext_calls, call, build, search, other,
                   session_documents, rag_system, slack_bot, bot_running, bot_threads>>

\* the object on its own: started, stopped and cleaned up over a RAGSystem
\* that is initialized and reset
BotNext ==
    \/ InitializeSystem
    \/ ResetSystem
    \/ BotStart
    \/ BotStop
    \/ BotCleanup
    \/ ThreadEnds

SpecBot == BotInit /\ [][BotNext]_vars

\* the messages of a started bot answered while the bot is stopped and the
\* RAGSystem is initialized again
HandlerNext ==
    \/ InitializeSystem
    \/ BotStart
    \/ BotStop
    \/ HandlerReceives
    \/ HandlerProcessQuery
    \/ Invoke
    \/ Retrieve
    \/ Grade
    \/ Rewrite
    \/ RewriteRaises
    \/ WebSearch
    \/ Generate
    \/ GenerateRaises
    \/ Return
    \/ HandlerReplies
    \/ HandlerExcept

SpecHandler == BotInit /\ [][HandlerNext]_vars

(***************************************************************************)
(* Home.py: the page's handlers over st.session_state, with credentials    *)
(* validated, and the messages handled by the threads of started bots.     *)
(***************************************************************************)
\* the files the uploader is given
HomeFiles == { "notes.txt", "short.pdf" }

HomeInit ==
    /\ Init
    /\ documents = <<>>

FileNames(files) == { files[i] : i \in 1..Len(files) }

\* st.session_state.documents[name] = content
AddFile(files, name) == IF name \in FileNames(files) THEN files ELSE Append(files, name)

\* del st.session_state.documents[name]
RemoveFile(files, name) ==
    LET Other(f) == f # name
    IN  SelectSeq(files, Other)

\* RAGSystem(documents, credentials) followed by initialize_system()
NewRag(files, made) ==
    [exists |-> TRUE, documents |-> files, vectorstore |-> made.store,
     initialized |-> made.ok]

\* initialize_systems(): what it returns and leaves in rag_system, slack_bot
initialize_systems(files, made) ==
    IF Len(files) > 0
    THEN IF made.ok
         THEN [ok |-> TRUE, rag_system |-> NewRag(files, made), called |-> made.called,
               slack_bot |-> [exists |-> TRUE, rag |-> NewRag(files, made),
                              started |-> FALSE]]
         ELSE [ok |-> FALSE, rag_system |-> NewRag(files, made), called |-> made.called,
               slack_bot |-> slack_bot]
    ELSE [ok |-> FALSE, rag_system |-> rag_system, called |-> {}, slack_bot |-> slack_bot]

\* handle_document_upload with a file in the uploader
HandleDocumentUpload ==
    /\ \E name \in HomeFiles :
       \E embed_ok \in BOOLEAN :
       \E files \in {AddFile(session_documents, name)} :
       \E made \in {create_vectorstore(files, NoneStore, embed_ok)} :
       \E done \in {initialize_systems(files, made)} :
          /\ session_documents' = files
          /\ rag_system' = done.rag_system
          /\ slack_bot' = done.slack_bot
          /\ ext_calls' = ext_calls \cup done.called
    /\ UNCHANGED <<sysvars, runvars, call, build, search, other,
                   bot_running, bot_threads, delivered>>

\* display_documents: the Delete button of a file
DeleteDocument ==
    /\ \E name \in FileNames(session_documents) :
          session_documents' = RemoveFile(session_documents, name)
    /\ UNCHANGED <<sysvars, runvars, ext_calls, call, build, search, other,
                   rag_system, slack_bot, bot_running, bot_threads, delivered>>

\* display_documents: the Clear All Documents button
ClearDocuments ==
    /\ Len(session_documents) > 0
    /\ session_documents' = <<>>
    /\ UNCHANGED <<sysvars, runvars, ext_calls, call, build, search, other,
                   rag_system, slack_bot, bot_running, bot_threads, delivered>>

\* start_bot: initialize_systems, then slack_bot.start(), which may fail;
\* reset_bot_state on either failure
StartBot ==
    /\ ~bot_running
    /\ Cardinality(bot_threads) < MaxBotThreads
    /\ \E embed_ok \in BOOLEAN :
       \E start_ok \in BOOLEAN :
       \E made \in {create_vectorstore(session_documents, NoneStore, embed_ok)} :
       \E done \in {initialize_systems(session_documents, made)} :
          /\ IF done.ok /\ start_ok
             THEN /\ rag_system' = done.rag_system
                  /\ slack_bot' = [done.slack_bot EXCEPT !.started = TRUE]
                  /\ bot_threads' = bot_threads \cup {done.rag_system}
                  /\ bot_running' = TRUE
             ELSE /\ rag_system' = NoRag
                  /\ slack_bot' = NoBot
                  /\ bot_running' = FALSE
                  /\ UNCHANGED bot_threads
          /\ ext_calls' = ext_calls \cup done.called
    /\ UNCHANGED <<sysvars, runvars, call, build, search, other,
                   session_documents, delivered>>

\* stop_bot: slack_bot.stop() closes the handler of a started bot, then
\* reset_bot_state
StopBot ==
    /\ bot_running
    /\ bot_threads' = IF slack_bot.exists /\ slack_bot.started
                      THEN bot_threads \ {slack_bot.rag} ELSE bot_threads
    /\ rag_system' = NoRag
    /\ slack_bot' = NoBot
    /\ bot_running' = FALSE
    /\ UNCHANGED <<sysvars, runvars, ext_calls, call, build, search, other,
                   session_documents, delivered>>

\* a message handled on the thread of a started bot: the retrieval of the
\* query over that bot's RAGSystem
HandleDirectMessage ==
    /\ \E rag \in bot_threads :
          IF rag.initialized /\ rag.vectorstore.built
          THEN \E raised \in BOOLEAN :
               \E mmr \in MmrResults(rag.vectorstore.docs, MmrK) :
               \E sim \in SimilarityResults(rag.vectorstore.docs, SimilarityK) :
                  delivered' =
                      [op |-> "message", index |-> rag.vectorstore.docs,
                       docs |-> search_local_documents(rag.vectorstore, mmr, sim, raised).docs]
          ELSE delivered' = [op |-> "message", index |-> <<>>, docs |-> <<>>]
    /\ ext_calls' = ext_calls \cup {"embeddings"}
    /\ UNCHANGED <<sysvars, runvars, call, build, search, other,
                   session_documents, rag_system, slack_bot, bot_running, bot_threads>>

HomeNext ==
    \/ HandleDocumentUpload
    \/ DeleteDocument
    \/ ClearDocuments
    \/ StartBot
    \/ StopBot
    \/ HandleDirectMessage

SpecHome == HomeInit /\ [][HomeNext]_vars

(***************************************************************************)
(* Home.py: the RAGSystem kept in st.session_state.rag_system, held in the *)
(* variables of the RAGSystem, with the buttons that replace it and the    *)
(* buttons that change its prompt. Credentials are validated.              *)
(***************************************************************************)
SessionInit ==
    /\ Init
    /\ documents = <<>>

\* st.session_state.rag_system is an object (None before the first
\* initialize_systems and after reset_bot_state)
SessionRagExists == init_returned # "none"

\* RAGSystem(st.session_state.documents, credentials) followed by
\* initialize_system(): a new object, its prompts the default ones
NewRagSystem(files, embed_ok) ==
    \E made \in {create_vectorstore(files, NoneStore, embed_ok)} :
        /\ documents' = files
        /\ vectorstore' = made.store
        /\ workflow' = IF made.ok THEN "compiled" ELSE "None"
        /\ initialized' = made.ok
        /\ init_returned' = IF made.ok THEN "True" ELSE "False"
        /\ default_prompt' = DefaultPrompt
        /\ current_prompt' = DefaultPrompt
        /\ ext_calls' = ext_calls \cup made.called

\* reset_bot_state: rag_system = None
NoRagSystem ==
    /\ documents' = <<>>
    /\ vectorstore' = NoneStore
    /\ workflow' = "None"
    /\ initialized' = FALSE
    /\ init_returned' = "none"
    /\ default_prompt' = DefaultPrompt
    /\ current_prompt' = DefaultPrompt

\* the files the uploader is given
SessionFiles == { "notes.txt", "short.pdf", "blank.pdf" }

\* handle_document_upload with a file in the uploader: initialize_systems()
UploadDocument ==
    /\ \E name \in SessionFiles :
       \E embed_ok \in BOOLEAN :
          /\ session_documents' = AddFile(session_documents, name)
          /\ NewRagSystem(AddFile(session_documents, name), embed_ok)
    /\ UNCHANGED <<runvars, call, build, search, other, rag_system, slack_bot,
                   bot_running, bot_threads, delivered>>

\* the Save Prompt button: rag_system.update_prompt when there is a system
SavePrompt ==
    /\ SessionRagExists
    /\ \E new_prompt \in NewPrompts : current_prompt' = new_prompt
    /\ UNCHANGED <<documents, vectorstore, workflow, initialized, init_returned,
                   default_prompt, runvars, ext_calls, call, auxvars>>

\* the Reset to Default button: rag_system.reset_prompt (the assignment to
\* st.session_state.prompt_editor before it is taken to succeed)
ResetToDefault ==
    /\ SessionRagExists
    /\ current_prompt' = default_prompt
    /\ UNCHANGED <<documents, vectorstore, workflow, initialized, init_returned,
                   default_prompt, runvars, ext_calls, call, auxvars>>

\* the Start Bot button: start_bot
StartBotButton ==
    /\ ~bot_running
    /\ \E embed_ok \in BOOLEAN :
       \E start_ok \in BOOLEAN :
          IF Len(session_documents) > 0
             /\ create_vectorstore(session_documents, NoneStore, embed_ok).ok
             /\ start_ok
          THEN /\ NewRagSystem(session_documents, embed_ok)
               /\ bot_running' = TRUE
          ELSE /\ NoRagSystem
               /\ bot_running' = FALSE
               /\ ext_calls' =
                     IF Len(session_documents) > 0
                     THEN ext_calls
                          \cup create_vectorstore(session_documents, NoneStore, embed_ok).called
                     ELSE ext_calls
    /\ UNCHANGED <<runvars, call, build, search, other, session_documents,
                   rag_system, slack_bot, bot_threads, delivered>>

\* the Stop Bot button: stop_bot
StopBotButton ==
    /\ bot_running
    /\ NoRagSystem
    /\ bot_running' = FALSE
    /\ UNCHANGED <<runvars, ext_calls, call, build, search, other, session_documents,
                   rag_system, slack_bot, bot_threads, delivered>>

SessionNext ==
    \/ UploadDocument
    \/ DeleteDocument
    \/ ClearDocuments
    \/ SavePrompt
    \/ ResetToDefault
    \/ StartBotButton
    \/ StopBotButton

SpecSession == SessionInit /\ [][SessionNext]_vars

(***************************************************************************)
(* generate_answer called on its own, on document lists made by hand.      *)
(***************************************************************************)
\* a Document made by hand: any of source and page may be absent
Chunk(content, has_source, source, has_page, page) ==
    [Document(content, source, has_page, page, 0) EXCEPT !.has_source = has_source]

RenderPool ==
    { Chunk("Alpha", TRUE, "a.pdf", TRUE, 1),
      Chunk(" Alpha again ", TRUE, "a.pdf", TRUE, 1),
      Chunk("Preface", TRUE, "a.pdf", TRUE, 0),
      Chunk("Loose leaf", TRUE, "a.pdf", FALSE, 0),
      Chunk("Stray", FALSE, "", TRUE, 1),
      Chunk("Named", TRUE, "Unknown", TRUE, 1),
      Chunk("Note", TRUE, "b.txt", FALSE, 0),
      Chunk("Second part", TRUE, "b.txt", FALSE, 0) }

RenderDocLists == UNION { [1..k -> RenderPool] : k \in 0..MaxRenderDocs }

\* items as google_search returns them
RenderWebPool ==
    { [WebItem(1) EXCEPT !.title = "Atlas", !.snippet = "Maps", !.link = "http://a"],
      [WebItem(2) EXCEPT !.title = "Zebra", !.snippet = "Stripes", !.link = "http://z"] }

RenderWebLists == UNION { [1..k -> RenderWebPool] : k \in 0..MaxRenderWeb }

\* the states generate_answer is called on: documents with web_results
\* absent or empty, or at most one document with web results
RenderInputs ==
    { [op |-> "documents", docs |-> docs, has_web |-> FALSE, web |-> <<>>] :
        docs \in RenderDocLists }
    \cup { [op |-> "documents", docs |-> docs, has_web |-> TRUE, web |-> web] :
             docs \in { d \in RenderDocLists : Len(d) <= 1 }, web \in RenderWebLists }

RenderState(input) ==
    IF input.has_web
    THEN ApplyUpdate(StateWith("Explain zebra habitat", input.docs),
                     [web_results |-> input.web])
    ELSE StateWith("Explain zebra habitat", input.docs)

RenderInit ==
    /\ documents = <<>>
    /\ vectorstore = NoneStore
    /\ workflow = "None"
    /\ initialized = FALSE
    /\ default_prompt = DefaultPrompt
    /\ current_prompt = DefaultPrompt
    /\ init_returned = "none"
    /\ pc = "idle"
    /\ state = EmptyState
    /\ ran = <<>>
    /\ run_status = "none"
    /\ result = NoResult
    /\ faults = {}
    /\ start_prompt = ""
    /\ llm_prompt = ""
    /\ ext_calls = {}
    /\ build = NoBuild
    /\ search = NoSearch
    /\ other = NoRun
    /\ session_documents = <<>>
    /\ rag_system = NoRag
    /\ slack_bot = NoBot
    /\ bot_running = FALSE
    /\ bot_threads = {}
    /\ delivered = NoDelivery
    /\ call \in RenderInputs

\* rag.generate_answer(state) on the documents drawn
GenerateAnswer ==
    /\ call.op = "documents"
    /\ \E answer \in LlmAnswers :
          call' = [op |-> "generate", docs |-> call.docs,
                   has_web |-> call.has_web, web |-> call.web,
                   doc_contexts |-> doc_contexts(call.docs),
                   doc_context |-> doc_context(call.docs),
                   web_contexts |-> web_contexts(StateGet(RenderState(call), "web_results", <<>>)),
                   out |-> generate_answer(RenderState(call), answer)]
    /\ llm_prompt' = prompt(current_prompt, RenderState(call))
    /\ ext_calls' = ext_calls \cup {"llm"}
    /\ UNCHANGED <<sysvars, pc, state, ran, run_status, result, faults, start_prompt,
                   auxvars>>

RenderNext == GenerateAnswer

SpecRender == RenderInit /\ [][RenderNext]_vars

(***************************************************************************)
(* Properties.                                                             *)
(***************************************************************************)
Last(seq) == seq[Len(seq)]
Times(seq, x) == Cardinality({ i \in 1..Len(seq) : seq[i] = x })
AfterGrade == Len(ran) > 0 /\ Last(ran) = "grade"

\* C1: generate runs at most once in a run, and a run that reaches END has
\* run generate exactly once, as the last node before END.
C1_GenerateOnceBeforeEnd ==
    /\ Times(ran, "generate") <= 1
    /\ (pc = "END" \/ run_status = "ended") =>
          /\ Len(ran) > 0
          /\ Last(ran) = "generate"
          /\ Times(ran, "generate") = 1

\* a run at END that took the direct edge from grade to generate
C1_Witness == pc = "END" /\ ran = <<"retrieve", "grade", "generate">>

\* C2 (as claimed): no run is halted by a failure inside a node; every run
\* that entered the graph goes on to END.
C2_NodeFailureNeverHalts == run_status # "aborted"

\* C3: when the documents are empty after grade, the conditional edge
\* selects rewrite, never generate.
C3_EmptyDocumentsToRewrite ==
    (AfterGrade /\ Len(state.documents) = 0) => pc = "rewrite"

\* grade left no document for a query without any keyword, rewrite is next
C3_Witness ==
    /\ AfterGrade
    /\ Len(state.documents) = 0
    /\ state.query = "Explain zebra habitat"
    /\ documents = <<"scan.pdf">>
    /\ pc = "rewrite"

\* C4 (as claimed): whenever the grader's flag is "Yes", the step out of grade
\* goes to rewrite.
C4_FlagSelectsRewrite ==
    [][(/\ pc = "grade"
        /\ pc' # "grade"
        /\ grade_documents(state).web_search_needed = "Yes") => pc' = "rewrite"]_vars

KeywordRoute == <<"retrieve", "grade", "rewrite", "web_search", "generate">>

\* C5: a run on a query containing "latest" executes the nodes in the order
\* retrieve, grade, rewrite, web_search, generate, whatever the number of
\* documents that survive grading: out of grade the next node is rewrite,
\* generate is entered from web_search only, and a run that reaches END has
\* executed the whole route.
C5_KeywordRoute ==
    (run_status # "none" /\ Contains(Lower(state.query), "latest")) =>
        /\ Len(ran) <= Len(KeywordRoute)
        /\ ran = SubSeq(KeywordRoute, 1, Len(ran))
        /\ (run_status = "running" => pc = Append(KeywordRoute, "END")[Len(ran) + 1])
        /\ (run_status = "ended" => ran = KeywordRoute)

\* ten or more documents survived grading and the run went through rewrite
\* and web_search to generate
C5_Witness ==
    /\ Contains(Lower(state.query), "latest")
    /\ Len(state.documents) >= 10
    /\ ran = <<"retrieve", "grade", "rewrite", "web_search">>
    /\ pc = "generate"

\* C6: a run executes no node twice and at most five nodes, and the node it is
\* about to execute is one it has not executed: every step of a run makes
\* progress towards END.
C6_NoNodeTwice ==
    /\ Len(ran) <= Cardinality(Nodes)
    /\ \A i, j \in 1..Len(ran) : i # j => ran[i] # ran[j]
    /\ pc \in Nodes => \A i \in 1..Len(ran) : ran[i] # pc
    /\ run_status = "running" => pc \in Nodes \cup {"END"}

\* a run that executed all five nodes and stands at END
C6_Witness == pc = "END" /\ Len(ran) = 5

\* C7: the order of the nodes: retrieve is entered from invoke only and is
\* followed by grade; grade is entered from retrieve only; rewrite is entered
\* from grade only; web_search is entered from rewrite only and is followed by
\* generate; generate is entered from grade or web_search and no node follows
\* it.
C7_NodeOrder ==
    [][/\ (pc' = "retrieve" /\ pc # pc') => pc = "invoke"
       /\ (pc = "retrieve" /\ pc # pc') => pc' = "grade"
       /\ (pc' = "grade" /\ pc # pc') => pc = "retrieve"
       /\ (pc' = "rewrite" /\ pc # pc') => pc = "grade"
       /\ (pc' = "web_search" /\ pc # pc') => pc = "rewrite"
       /\ (pc = "web_search" /\ pc # pc') => pc' = "generate"
       /\ (pc' = "generate" /\ pc # pc') => pc \in {"grade", "web_search"}
       /\ (pc = "generate" /\ pc # pc') => pc' \notin Nodes
       /\ (pc' = "END" /\ pc # pc') => pc = "generate"]_vars

\* a run that went through both branches' common end: the long route, ended
C7_Witness == run_status = "ended" /\ ran = KeywordRoute

\* C8: process_query never raises: a call that is over returned a string, and
\* the string is the not-initialized message, the degraded-service message or
\* the answer the run left in its state.
C8_ProcessQueryReturnsString ==
    /\ result.kind # "raised"
    /\ pc = "idle" => result.kind \in {"none", "returned"}
    /\ result.kind = "returned" =>
          \/ result.value = NotInitializedMsg
          \/ result.value = ErrorMsg
          \/ (run_status = "ended" /\ result.value = state.answer)

\* a call on a system that reports ready with no workflow (after reset_system
\* and create_vectorstore): the call on None is caught
C8_Witness ==
    /\ result = Returned(ErrorMsg)
    /\ run_status = "none"
    /\ workflow = "None"
    /\ initialized

\* C9: with an empty document set initialize_system never returns True, the
\* system never reports ready, and every process_query returns the
\* not-initialized message without having executed a node or called an
\* external service.
C9_EmptyDocumentSet ==
    documents = <<>> =>
        /\ init_returned # "True"
        /\ ~vectorstore.built
        /\ pc = "idle"
        /\ ran = <<>>
        /\ ext_calls = {}
        /\ result \in {NoResult, Returned(NotInitializedMsg)}

\* initialize_system returned False and a query got the not-initialized message
C9_Witness ==
    /\ documents = <<>>
    /\ init_returned = "False"
    /\ result = Returned(NotInitializedMsg)

\* C10 (as claimed): is_initialized() is true exactly when an index is
\* published and a workflow is compiled.
C10_ReadyIffIndexAndWorkflow ==
    is_initialized <=> (vectorstore.built /\ workflow = "compiled")

\* no document of the system yields a text unit with text in it
NoTextUnit ==
    LET units == load_documents(documents)
    IN  \A i \in 1..Len(units) : ~StripNonEmpty(units[i].page_content)

\* C11: when no document yields a text unit, initialize_system never returns
\* True, no index is published and the system is not initialized; and a call
\* of initialize_system that returns True leaves an index published.
C11_NoTextUnitInitFails ==
    /\ [](NoTextUnit =>
            /\ init_returned # "True"
            /\ ~vectorstore.built
            /\ ~initialized
            /\ ~is_initialized)
    /\ [][(init_returned' = "True" /\ init_returned # "True") =>
            (vectorstore'.built /\ ~NoTextUnit)]_vars

\* a text file of white space only: a document is loaded, no chunk comes of
\* it, and initialize_system returned False
C11_Witness ==
    /\ documents = <<"empty.txt">>
    /\ Len(load_documents(documents)) = 1
    /\ init_returned = "False"
    /\ ~vectorstore.built

SearchReturned == call.op = "search" /\ ~call.raised

\* C12: search_local_documents called with no index built (never built, or
\* reset) raises nothing and returns the empty list.
C12_NoIndexEmptyResult ==
    (call.op = "search" /\ ~call.built) => (~call.raised /\ call.out = <<>>)

\* a search on a store that was built and then reset
C12_Witness ==
    /\ call.op = "search"
    /\ ~call.built
    /\ call.out = <<>>
    /\ "embeddings" \in ext_calls
    /\ ~vectorstore.built

\* C13 (as claimed): no two chunks of the list search_local_documents
\* returns have the same text.
C13_ResultHasNoRepeatedText ==
    SearchReturned =>
        \A i, j \in 1..Len(call.out) :
            i # j => call.out[i].page_content # call.out[j].page_content

\* the similarity hits the merge appends: those whose text is neither in the
\* diversity results nor in an earlier similarity hit
AppendedHits(mmr, sim) ==
    { i \in 1..Len(sim) :
        /\ sim[i].page_content \notin Contents(mmr)
        /\ \A j \in 1..(i - 1) : sim[j].page_content # sim[i].page_content }

\* C14: the result is the diversity results in their order, followed by
\* exactly the similarity hits whose text is not earlier in the result, in
\* similarity order.
C14_MergeOrder ==
    SearchReturned =>
        LET mmr == call.mmr
            sim == call.sim
            out == call.out
            kept == AppendedHits(mmr, sim)
        IN  /\ Len(out) = Len(mmr) + Cardinality(kept)
            /\ SubSeq(out, 1, Len(mmr)) = mmr
            /\ \A i \in kept :
                  out[Len(mmr) + Cardinality({ j \in kept : j <= i })] = sim[i]

\* two similarity hits, one appended after the diversity results and one
\* left out for its text
C14_Witness ==
    /\ SearchReturned
    /\ Len(call.sim) = 2
    /\ Len(call.out) = Len(call.mmr) + 1
    /\ Len(call.mmr) = MmrK

GradeStep == pc = "grade" /\ pc' # pc

AnchorTerms == { "spiritual", "machine", "consciousness", "intelligence" }

\* the three conditions for keeping a chunk
EarlyPage(doc) == doc.has_page /\ doc.page <= 5
SharesToken(doc, query) ==
    Split(Lower(doc.page_content)) \cap Split(Lower(query)) # {}
HasAnchorTerm(doc) ==
    \E term \in AnchorTerms : Contains(Lower(doc.page_content), term)

IsIn(doc, docs) == \E j \in 1..Len(docs) : docs[j] = doc

\* C15: the grade node keeps every chunk that is on a page up to 5, or shares
\* a lowercase token with the query, or contains an anchor term; a chunk it
\* drops satisfies none of the three.
C15_KeptWhenAnyHolds ==
    [][GradeStep =>
        \A i \in 1..Len(state.documents) :
            LET doc == state.documents[i]
            IN  (EarlyPage(doc) \/ SharesToken(doc, state.query) \/ HasAnchorTerm(doc))
                    => IsIn(doc, state'.documents)]_vars

\* grade kept 8 of 11 chunks: early pages, chunks with an anchor term only, a
\* chunk sharing tokens with the query, and three chunks dropped
C15_Witness ==
    /\ AfterGrade
    /\ state.query = "Explain zebra habitat"
    /\ documents = <<"bad.csv", "book.pdf", "notes.txt">>
    /\ Len(state.documents) = 8

\* C16: the flag grade_documents returns is "Yes" exactly when no document was
\* retrieved or fewer than 5 chunks survive, and "No" otherwise.
C16_FlagIffFewerThanFive ==
    [][GradeStep =>
        LET flag == grade_documents(state).web_search_needed
        IN  /\ flag \in {"Yes", "No"}
            /\ flag = "Yes" <=>
                  (Len(state.documents) = 0 \/ Len(state'.documents) < 5)]_vars

\* exactly five chunks survived grading
C16_Witness ==
    /\ AfterGrade
    /\ documents = <<"five.pdf">>
    /\ Len(state.documents) = 5
    /\ pc = "generate"

Tokens(query) == Split(Lower(query))

\* C17: for the same documents, every chunk grade_documents keeps for a query
\* is kept for a query whose token set contains the first query's.
C17_GradeMonotone ==
    (call.op = "grade" /\ Tokens(call.q1) \subseteq Tokens(call.q2)) =>
        \A i \in 1..Len(call.out1.documents) :
            IsIn(call.out1.documents[i], call.out2.documents)

\* a query and a query of more tokens: what the first keeps beyond the early
\* pages is kept by the second, which keeps more
C17_Witness ==
    /\ call.op = "grade"
    /\ Tokens(call.q1) \subseteq Tokens(call.q2)
    /\ Tokens(call.q1) # Tokens(call.q2)
    /\ \E i \in 1..Len(call.out1.documents) : call.out1.documents[i].page > 5
    /\ Len(call.out1.documents) < Len(call.out2.documents)

RewriteFails == pc = "rewrite" /\ "llm" \in faults' /\ "llm" \notin faults

\* C18: when the language-model call of rewrite fails, the rewritten query is
\* the original query, the run goes on to web_search and is not aborted.
C18_RewriteFailureContinues ==
    [][RewriteFails =>
        /\ pc' = "web_search"
        /\ StateGet(state', "rewritten_query", "") = state.query
        /\ run_status' = "running"]_vars

SearchProviderFails == "google" \in faults' /\ "google" \notin faults

\* C19: an error of the search provider during web_search leaves web_results
\* empty and the query unchanged, and the run goes on to generate without the
\* error leaving the node.
C19_SearchErrorYieldsEmpty ==
    [][SearchProviderFails =>
        /\ pc = "web_search" /\ pc' = "generate"
        /\ "web_results" \in state'.present /\ state'.web_results = <<>>
        /\ state'.query = state.query
        /\ run_status' = "running" /\ result' = result]_vars

\* the provider failed, web_search ran and the run is about to generate
C19_Witness ==
    /\ "google" \in faults
    /\ Last(ran) = "web_search"
    /\ pc = "generate"
    /\ run_status = "running"
    /\ "web_results" \in state.present /\ state.web_results = <<>>

\* the (source, page) pairs of the rendered document context, in order
RECURSIVE RenderedPairsFrom(_, _)
RenderedPairsFrom(blocks, b) ==
    IF b > Len(blocks) THEN <<>>
    ELSE [i \in 1..Len(blocks[b].pages) |-> <<blocks[b].source, blocks[b].pages[i].page>>]
         \o RenderedPairsFrom(blocks, b + 1)

RenderedPairs(blocks) == RenderedPairsFrom(blocks, 1)

\* C20: the document context generate_answer renders has no (source, page)
\* pair twice, a missing source counting as "Unknown" and a missing page as
\* "N/A".
C20_NoRepeatedSourcePage ==
    call.op = "generate" =>
        LET pairs == RenderedPairs(call.doc_contexts)
        IN  \A i, j \in 1..Len(pairs) : i # j => pairs[i] # pairs[j]

\* three documents, two of the same (source, page) and one of them with no
\* source: two entries are rendered
C20_Witness ==
    /\ call.op = "generate"
    /\ Len(call.docs) = 3
    /\ \E i, j \in 1..Len(call.docs) :
          /\ i # j
          /\ ~call.docs[i].has_source /\ call.docs[j].has_source
          /\ SourceOf(call.docs[i]) = SourceOf(call.docs[j])
          /\ PageOf(call.docs[i]) = PageOf(call.docs[j])
    /\ \E i \in 1..Len(call.docs) : ~call.docs[i].has_page
    /\ Len(RenderedPairs(call.doc_contexts)) = 2

\* the page a rendered label stands for
HasNumber(label) == \E n \in 0..9 : ToString(n) = label
PageNumber(label) == CHOOSE n \in 0..9 : ToString(n) = label

BlockSources(blocks) == { blocks[b].source : b \in 1..Len(blocks) }

\* C21: the rendered document context has one block for each distinct source
\* of the documents, and the pages of a block ascend whatever the order of the
\* documents was.
C21_BlockPerSourcePagesAscend ==
    call.op = "generate" =>
        LET blocks == call.doc_contexts
        IN  /\ \A a, b \in 1..Len(blocks) : a # b => blocks[a].source # blocks[b].source
            /\ BlockSources(blocks) = { SourceOf(call.docs[i]) : i \in 1..Len(call.docs) }
            /\ \A b \in 1..Len(blocks) :
               \A i, j \in 1..Len(blocks[b].pages) :
                  (i < j /\ HasNumber(blocks[b].pages[i].page)
                         /\ HasNumber(blocks[b].pages[j].page))
                     => PageNumber(blocks[b].pages[i].page)
                          < PageNumber(blocks[b].pages[j].page)

\* page 1 of a source was received before its page 0, with a document of a
\* second source: two blocks, the first of two pages
C21_Witness ==
    /\ call.op = "generate"
    /\ \E i, j \in 1..Len(call.docs) :
          /\ i < j
          /\ SourceOf(call.docs[i]) = SourceOf(call.docs[j])
          /\ call.docs[i].has_page /\ call.docs[j].has_page
          /\ call.docs[i].page > call.docs[j].page
    /\ Len(call.doc_contexts) = 2
    /\ \E b \in 1..Len(call.doc_contexts) : Len(call.doc_contexts[b].pages) = 2

\* the first position of t in s (0: t is not in s)
IndexOf(s, t) ==
    LET at == { i \in 1..(Len(s) - Len(t) + 1) : SubSeq(s, i, i + Len(t) - 1) = t }
    IN  IF at = {} THEN 0 ELSE CHOOSE i \in at : \A j \in at : i <= j

NoWebMarker == "No web results available."

WebBlock(item, i) ==
    "[Result " \o ToString(i) \o "]\nTitle: " \o item.title
        \o "\nContent: " \o item.snippet \o "\nURL: " \o item.link

\* C22: the prompt holds the web results as blocks numbered 1..n in the
\* order received, and the no-web-results marker when web_results is absent
\* or empty.
C22_WebBlocksNumberedOrMarker ==
    call.op = "generate" =>
        IF Len(call.web) = 0
        THEN IndexOf(llm_prompt, "Web Results:\n" \o NoWebMarker \o "\n</input>") > 0
        ELSE /\ IndexOf(llm_prompt, NoWebMarker) = 0
             /\ IndexOf(llm_prompt, "[Result " \o ToString(Len(call.web) + 1) \o "]") = 0
             /\ \A i \in 1..Len(call.web) :
                   IndexOf(llm_prompt, WebBlock(call.web[i], i)) > 0
             /\ \A i \in 1..(Len(call.web) - 1) :
                   IndexOf(llm_prompt, WebBlock(call.web[i], i))
                     < IndexOf(llm_prompt, WebBlock(call.web[i + 1], i + 1))

\* two different results were received and rendered
C22_Witness ==
    /\ call.op = "generate"
    /\ Len(call.web) = 2
    /\ call.web[1].title = "Zebra" /\ call.web[2].title = "Atlas"
    /\ IndexOf(llm_prompt, "[Result 2]\nTitle: Atlas") > 0

SynthesisFails == pc = "generate" /\ "llm" \in faults' /\ "llm" \notin faults

\* C23: when the language-model call of generate_answer fails, the node
\* returns with an answer in the state (the fixed degraded-service text) and
\* the exception does not leave the node.
C23_SynthesisFailureCaught ==
    [][SynthesisFails =>
        /\ "answer" \in state'.present
        /\ pc' = "END"
        /\ run_status' = "running"]_vars

SynthesisStep == pc = "generate" /\ pc' # pc

\* C24: a run is synthesized with the template that was active when the run
\* started, whatever update_prompt and reset_prompt calls come between the
\* start of the run and its generate node.
C24_RunUsesTemplateOfItsStart ==
    [][SynthesisStep => llm_prompt' = prompt(start_prompt, state)]_vars

\* C25: reset_prompt makes the active template the default template after
\* any update_prompt calls; the default template never changes, and only
\* update_prompt and reset_prompt change the active template (generate_answer
\* reads it).
C25_ResetRestoresDefault ==
    /\ [](default_prompt = DefaultPrompt)
    /\ [][/\ ResetPrompt => current_prompt' = DefaultPrompt
          /\ ~(UpdatePrompt \/ ResetPrompt) => current_prompt' = current_prompt
          /\ SynthesisStep => IndexOf(llm_prompt', current_prompt \o "\n\n<input>") = 1]_vars

\* a run started under an updated template, the template was reset and the
\* run was synthesized with the default template
C25_Witness ==
    /\ start_prompt = "Answer briefly."
    /\ current_prompt = DefaultPrompt
    /\ run_status = "ended"
    /\ IndexOf(llm_prompt, DefaultPrompt) = 1

\* a fully built index: an entry for every chunk of the documents
FullIndex == [built |-> TRUE, docs |-> split_documents(load_documents(documents))]

EntriesOf(index) == { index.docs[i] : i \in 1..Len(index.docs) }

\* C26: while an index is built on another thread, the index a search reads is
\* no index or a fully built index, and self.vectorstore never holds a part of
\* an index.
C26_NoPartialIndexRead ==
    /\ vectorstore \in {NoneStore, FullIndex}
    /\ \A i \in 1..Len(search.read) : search.read[i] = FullIndex
    /\ \A i \in 1..Len(search.out) : search.out[i] \in EntriesOf(FullIndex)

\* a search read the index of the earlier build while the next build has
\* embedded a part of its entries
C26_Witness ==
    /\ search.pc = "sim"
    /\ Len(search.read) = 2
    /\ build.pc = "embedding"
    /\ build.embedded > 0 /\ build.embedded < Len(build.splits)

\* C27: after the document set changed, the index a message delivered
\* through a running bot is answered from is the index of the present document
\* set: no chunk of a removed document, every chunk of an added one.
C27_BotIndexFollowsDocuments ==
    [][delivered' # delivered =>
        delivered'.index = split_documents(load_documents(session_documents))]_vars

InFlight(p) == p \notin {"none", "idle", "done"}

\* C29: two concurrent process_query calls each run over a state of their
\* own: a step of one run leaves the query, documents, rewritten query, web
\* results and answer of the other as they were, each state holds the query of
\* its own call, and no step of a run changes the index or the prompt.
C29_RunsIndependent ==
    /\ [](InFlight(other.pc) => other.state.query = other.query)
    /\ [][/\ other' # other =>
                /\ state' = state /\ result' = result
                /\ vectorstore' = vectorstore /\ current_prompt' = current_prompt
          /\ state' # state =>
                /\ other' = other
                /\ (InFlight(pc) /\ InFlight(pc')) =>
                       (state'.query = state.query /\ vectorstore' = vectorstore
                        /\ current_prompt' = current_prompt)]_vars

\* two runs in flight with different queries, one graded and one about to
\* search the web
C29_Witness ==
    /\ pc = "grade"
    /\ other.pc = "web_search"
    /\ state.query # other.state.query
    /\ Len(state.documents) > 0

(***************************************************************************)
(* Ingestion of a document set.                                            *)
(***************************************************************************)
\* the file does not decode as UTF-8, does not open as a PDF, or has an
\* extension that is neither .pdf, .txt nor .csv
DecodeFails(f) ==
    /\ EndsWith(Lower(f), ".txt") \/ EndsWith(Lower(f), ".csv")
    /\ ~FileBytes(f).utf8
PdfParseFails(f) == EndsWith(Lower(f), ".pdf") /\ ~FileBytes(f).opens
Unsupported(f) ==
    ~(EndsWith(Lower(f), ".pdf") \/ EndsWith(Lower(f), ".txt")
      \/ EndsWith(Lower(f), ".csv"))
IngestFails(f) == DecodeFails(f) \/ PdfParseFails(f) \/ Unsupported(f)

\* the text units of a file: the text of a flat-text file, the pages with
\* text of a PDF, in page order
RECURSIVE PageUnitsFrom(_, _, _)
PageUnitsFrom(f, pages, p) ==
    IF p > Len(pages) THEN <<>>
    ELSE (IF Strip(pages[p]) # ""
          THEN <<[source |-> f, text |-> pages[p], page |-> p]>>
          ELSE <<>>) \o PageUnitsFrom(f, pages, p + 1)
UnitsOf(f) ==
    IF EndsWith(Lower(f), ".pdf")
    THEN PageUnitsFrom(f, FileBytes(f).pages, 1)
    ELSE <<[source |-> f, text |-> FileBytes(f).text, page |-> 0]>>

\* the units of the files of a set that ingest, in the order of the set
RECURSIVE UnitsOfIngestedFrom(_, _)
UnitsOfIngestedFrom(files, i) ==
    IF i > Len(files) THEN <<>>
    ELSE (IF IngestFails(files[i]) THEN <<>> ELSE UnitsOf(files[i]))
         \o UnitsOfIngestedFrom(files, i + 1)

LoadedUnits(out) ==
    [k \in 1..Len(out) |->
        [source |-> out[k].source, text |-> out[k].page_content,
         page |-> IF out[k].has_page THEN out[k].page ELSE 0]]

BuildEnds == build.pc = "embedding" /\ build'.pc = "idle"

\* C31: when the embedding of one chunk of several fails, only that chunk is
\* dropped: the build still ends by publishing an index made of the remaining
\* chunks.
C31_ChunkFailureKeepsBuild ==
    [][(BuildEnds /\ Len(build.splits) > 1) =>
          /\ vectorstore'.built
          /\ Len(vectorstore'.docs) >= Len(build.splits) - 1
          /\ \A i \in 1..Len(vectorstore'.docs) :
                \E j \in 1..Len(build.splits) : vectorstore'.docs[i] = build.splits[j]]_vars

(***************************************************************************)
(* The SlackBot: stopping, replying, starting.                             *)
(***************************************************************************)
\* a call of stop or cleanup returned or raised in this step
StopStep ==
    /\ call'.op \in {"stop", "cleanup"}
    /\ call' # call \/ slack_bot' # slack_bot

\* C32: a stop or cleanup of the bot, whatever the run of a message is doing,
\* leaves the index, the workflow, the prompt and the state of the run as
\* they were.
C32_StopLeavesIndexAndPrompt ==
    [][StopStep =>
          /\ vectorstore' = vectorstore
          /\ current_prompt' = current_prompt
          /\ default_prompt' = default_prompt
          /\ workflow' = workflow
          /\ state' = state /\ pc' = pc /\ result' = result]_vars

\* the bot was stopped while the run of a message was at generate
C32_Witness ==
    /\ call.op = "stop" /\ call.returned = "True"
    /\ slack_bot.handler = "None"
    /\ delivered.op = "workflow"
    /\ pc = "generate"
    /\ vectorstore.built

\* C33: a message the handler was given gets one reply: never two, and one
\* whenever no call of say raised, on each path (not initialized, answer of
\* the workflow, empty answer, failed workflow, failed fallback).
C33_OneReplyPerMessage ==
    /\ delivered.op # "none" => Len(delivered.replies) <= 1
    /\ (delivered.op = "done" /\ ~delivered.say_raised) =>
          /\ Len(delivered.replies) = 1
          /\ delivered.says = 1
          /\ delivered.replies[1] # ""

\* the workflow returned an empty answer and the reply came from the outer
\* except clause
C33_Witness ==
    /\ delivered.op = "done"
    /\ delivered.response = Returned("")
    /\ delivered.path = "fallback"
    /\ delivered.replies = <<HandlerErrorMsg>>

\* C34: when process_query raises or returns an empty answer, the reply is
\* what the fallback processing returned.
C34_FallbackResultIsReplied ==
    (delivered.op = "done" /\ delivered.path = "fallback" /\ ~delivered.say_raised) =>
        /\ delivered.fallback.kind = "returned"
        /\ delivered.replies = <<delivered.fallback.value>>

\* start, stop or cleanup returned or raised in this step
StartStep == call'.op = "start" /\ (call' # call \/ slack_bot' # slack_bot)
Cleared(bot) == bot.app = "None" /\ bot.handler = "None" /\ bot.thread = "None"

\* C40: start returns False and creates nothing when the system is not
\* initialized or a statement of start raises; is_running holds only with a
\* handler and a thread; after stop or cleanup app, handler and thread are
\* None and is_running is false.
C40_BotLifecycle ==
    /\ [](is_running(slack_bot) =>
            slack_bot.handler # "None" /\ slack_bot.thread # "None")
    /\ [][/\ (StartStep /\ ~is_initialized) =>
                (call'.returned = "False" /\ slack_bot' = slack_bot)
          /\ (StartStep /\ is_initialized /\ call'.fails # "none") =>
                (call'.returned = "False" /\ Cleared(slack_bot'))
          /\ StopStep => (Cleared(slack_bot') /\ ~is_running(slack_bot'))]_vars

\* C35: once stop_bot has run, no handler started by an earlier start_bot
\* is open.
C35_NoHandlerOpenAfterStop == ~bot_running => bot_threads = {}

(***************************************************************************)
(* The prompt of the session's RAGSystem.                                  *)
(***************************************************************************)
\* initialize_systems ran and left a RAGSystem where there was one
Reinitialized ==
    /\ UploadDocument \/ StartBotButton
    /\ SessionRagExists
    /\ init_returned' # "none"

\* C36: initializing the system again (an upload, a start of the bot) leaves
\* the template the operator saved as the active template.
C36_SavedPromptSurvivesReinit ==
    [][Reinitialized => current_prompt' = current_prompt]_vars

(***************************************************************************)
(* The query of a run.                                                     *)
(***************************************************************************)
WebSearchStep == pc = "web_search" /\ pc' # pc
QuestionLine(query) == "Question: " \o query \o "\n\nDocument Context:"

\* C37: the query of a run is the text process_query was called with and no
\* node changes it; the rewritten query is kept in a field of its own and is
\* the term of the web search; the question of the synthesis prompt is the
\* query, not the rewritten query.
C37_QueryNeverModified ==
    [][/\ (pc = "idle" /\ pc' = "invoke") =>
              (state'.query \in Queries /\ state'.present = {"query"})
       /\ pc # "idle" => state'.query = state.query
       /\ (pc = "rewrite" /\ pc' = "web_search") =>
              ("rewritten_query" \in state'.present
               /\ state'.rewritten_query \in LlmRewrites)
       /\ WebSearchStep =>
              (ext_calls' \ ext_calls) \subseteq
                  {"google", GoogleCall(state.rewritten_query)}
       /\ SynthesisStep =>
              /\ Contains(llm_prompt', QuestionLine(state.query))
              /\ \A rewritten \in LlmRewrites :
                    ~Contains(llm_prompt', QuestionLine(rewritten))]_vars

\* a run that went through rewrite and web_search reached END with its query
\* as it was given and the rewritten query searched for
C37_Witness ==
    /\ pc = "END"
    /\ ran = KeywordRoute
    /\ state.query \in Queries
    /\ state.rewritten_query \in LlmRewrites
    /\ GoogleCall(state.rewritten_query) \in ext_calls
    /\ GoogleCall(state.query) \notin ext_calls
    /\ Contains(llm_prompt, QuestionLine(state.query))

\* C38: the content of every document handed to generate_answer is in the
\* document context it renders, also when several of them have the same
\* source and page or the same source and no page.
C38_EverySurvivorRendered ==
    call.op = "generate" =>
        \A i \in 1..Len(call.docs) :
            Contains(call.doc_context, Strip(call.docs[i].page_content))

(***************************************************************************)
(* reset_system and initialize_system while a call of process_query runs.  *)
(***************************************************************************)
\* the strings a call of process_query can return once a run has started
RunAnswers == LlmAnswers \cup {ErrorMsg, NoAnswerMsg}

\* C39: when the index or the workflow is cleared, or the system initialized
\* again, between the readiness check of process_query and their use, the
\* call goes on to return a string: the call on a None workflow gives the
\* degraded-service message, retrieval on a None index gives no documents and
\* the run continues, and no step leaves an exception to the caller.
C39_ResetInFlightStillAnswers ==
    [][(pc # "idle" /\ pc' # pc) =>
          /\ result'.kind \in {"pending", "returned"}
          /\ pc' = "idle" => (result'.kind = "returned" /\ result'.value \in RunAnswers)
          /\ pc' # "idle" => result'.kind = "pending"
          /\ (pc = "invoke" /\ workflow = "None") => result' = Returned(ErrorMsg)
          /\ (pc = "retrieve" /\ ~vectorstore.built) =>
                (pc' = "grade" /\ state'.documents = <<>>)]_vars

\* the index and the workflow were cleared after the readiness check and
\* before retrieval read the index
C39_Witness ==
    /\ pc = "retrieve"
    /\ result = Pending
    /\ ~vectorstore.built
    /\ workflow = "None"

====
